---- MODULE Spec2Model ----
(***************************************************************************)
(* Nero Manager (neromanager.cpp): prefix / shortcut / run orchestration.  *)
(*                                                                         *)
(* State of NeroManagerWindow and of the store behind NeroFS, one action   *)
(* per slot (signal handler) of the window.  Strings are modelled by       *)
(* small values: prefix names by strings, display names and executable     *)
(* base names by name codes (integers, so that the case-insensitive sort   *)
(* of RenderPrefixList can be computed), shortcut hashes by integers.      *)
(***************************************************************************)
EXTENDS Integers, Sequences, FiniteSets, TLC

(* ------------------------------ bounds -------------------------------- *)
\* launches accepted between two resets of threadsCount
MaxThreads == 2
\* shortcuts stored in one prefix
MaxShortcuts == 2
\* random draws followed in the hash re-roll loop of on_addButton_clicked
MaxRolls == 2
\* shortcut rows shown (rows of deleted shortcuts stay in the lists as null)
MaxRows == 3
\* lines of the system.reg file CreatePrefix rewrites
MaxRegLines == 3
\* output lines a subprocess of CreatePrefix / tricksWindow_result completes
MaxLines == 2
\* characters of the text typed in the one-time run's argument field
MaxArgLen == 4

(* ------------------------------ domains ------------------------------- *)
NoPrefix == ""
PrefixNames == {"Games", "Work", "Test"}
\* name codes: 1 = "app", 2 = "App" (case variants), 3 = "game"
Names == {1, 2, 3}
\* base names of the executables offered to the one-time run
OneTimeApps == {2}
NoName == 0
Hashes == {1, 2, 3}
NoHash == 0
AvailableProtons == <<"GE-Proton">>
\* exit codes of a subprocess
ExitCodes == {0, 1}

\* QString::compare(..., Qt::CaseInsensitive) compares the case-folded strings
Fold(n) == (n + 1) \div 2

Range(s) == {s[i] : i \in 1..Len(s)}

\* A QString of a command line or of an environment value is a sequence of
\* pieces; s + t is s \o t.
Str(piece) == <<piece>>

\* QString::contains(piece)
Contains(str, piece) == \E i \in 1..Len(str) : str[i] = piece

\* QStringList::filter(piece): the strings of the list that contain piece
Filter(list, piece) == SelectSeq(list, LAMBDA str : Contains(str, piece))

RECURSIVE Join(_, _)
\* QStringList::join(sep)
Join(list, sep) ==
    IF list = <<>> THEN <<>>
    ELSE IF Len(list) = 1 THEN list[1]
    ELSE list[1] \o <<sep>> \o Join(Tail(list), sep)

\* winetricks verbs, in the order of the keys of the QMap verbIsSelected
VerbOrder == <<<<"dotnet", "40">>, <<"dotnet", "48">>, <<"vcrun", "2019">>>>
Verbs == Range(VerbOrder)

\* the verbs the larger specifications draw from
BaseVerbs == {<<"dotnet", "48">>, <<"vcrun", "2019">>}

\* QMap::keys(true): the selected verbs in key order
Keys(selected) == SelectSeq(VerbOrder, LAMBDA v : v \in selected)

\* the lists of verbs the prefix wizard may hand over (verbsToInstall)
TricksLists ==
    {l \in UNION {[1..n -> BaseVerbs] : n \in 0..Cardinality(BaseVerbs)} :
        \A i, j \in 1..Len(l) : l[i] = l[j] => i = j}

\* NeroFS::GetUmU(), GetPrefixesPath().path(), GetProtonsPath().path()
GetUmU == Str("umu-run")
GetPrefixesPath == Str("prefixes")
GetProtonsPath == Str("compatibilitytools.d")

\* every occurrence removed (QList::removeAll)
RemoveAll(s, x) == SelectSeq(s, LAMBDA y : y # x)

RECURSIVE RemoveOne(_, _)
\* QList::removeOne: removes the first occurrence, if any
RemoveOne(s, x) ==
    IF s = <<>> THEN <<>>
    ELSE IF Head(s) = x THEN Tail(s)
    ELSE <<Head(s)>> \o RemoveOne(Tail(s), x)

\* a freed / null widget row, a null controller entry
NoRow == [live |-> FALSE, label |-> NoName, hash |-> NoHash, thread |-> 0, playing |-> FALSE]
NoCtl == [live |-> FALSE, slot |-> 0, param |-> 0, group |-> FALSE, tslot |-> 0,
          prefix |-> NoPrefix, name |-> NoName, proc |-> "none", killed |-> FALSE,
          call |-> "none", returned |-> -1, event |-> <<>>, text |-> <<>>, args |-> <<>>]

\* sysTray->setToolTip texts
TipNeutral == [kind |-> "neutral", prefix |-> NoPrefix, name |-> NoName, n |-> 0]
TipName(p, nm) == [kind |-> "name", prefix |-> p, name |-> nm, n |-> 0]
TipCount(p, k) == [kind |-> "count", prefix |-> p, name |-> NoName, n |-> k]

VARIABLES
    prefixes,            \* NeroFS::GetPrefixes(): the registry store's prefix list
    shortcuts,           \* per prefix, the [Shortcuts] group: hash -> display name
    prefixRunner,        \* per prefix, PrefixSettings/CurrentRunner
    currentPrefix,       \* NeroFS::GetCurrentPrefix()
    defaultPrefix,       \* managerCfg "DefaultPrefix"
    prefixMainButton,    \* texts of the rendered prefix buttons
    rows,                \* prefixShortcutLabel / PlayButton / Ico / EditButton, by row
    prefixIsSelected,
    backEnabled, backIcon,
    settingsEnabled, tricksEnabled,
    trayIcon, trayToolTip,
    currentlyRunning, threadsCount, umuController, oneOffsRunning,
    runnerPrefixIsDefault,
    runnerWindow,        \* TRUE when the transient runner dialog exists
    dialog,              \* the open dialog (wizard, shortcut settings) or none
    notifications,       \* tray messages shown by the flow last finished
    umu,                 \* the QProcess of CreatePrefix / tricksWindow_result, if any
    crashed,             \* an out-of-range or freed-widget access has happened:
                         \* the behaviour is undefined and nothing more is modelled
    manager,             \* the process: "starting", "running" or "exit1" (exit(1))
    systemReg,           \* system.reg of the prefix last created, as read and as written
    runnerDialogs,       \* the texts of the NeroRunnerDialog objects that exist
    lastOp               \* the handler that ran last, with what it did

vars == <<prefixes, shortcuts, prefixRunner, currentPrefix, defaultPrefix,
          prefixMainButton, rows, prefixIsSelected, backEnabled, backIcon,
          settingsEnabled, tricksEnabled, trayIcon, trayToolTip,
          currentlyRunning, threadsCount, umuController, oneOffsRunning,
          runnerPrefixIsDefault, runnerWindow, dialog, notifications, umu, crashed, manager,
          systemReg, runnerDialogs, lastOp>>

(* --------------------- NeroFS: the registry store --------------------- *)
EmptyShortcuts == [h \in Hashes |-> NoName]

\* QSettings::childKeys() of the [Shortcuts] group of prefix p
ChildKeys(p) == IF p \in PrefixNames THEN {h \in Hashes : shortcuts[p][h] # NoName} ELSE {}

RECURSIVE KeysAscending(_)
\* childKeys() lists the keys in ascending order
KeysAscending(S) ==
    IF S = {} THEN <<>>
    ELSE LET m == CHOOSE x \in S : \A y \in S : x <= y
         IN  <<m>> \o KeysAscending(S \ {m})

\* NeroFS::GetCurrentPrefixShortcuts(): the display names, one per key
GetCurrentPrefixShortcuts(p) ==
    LET ks == KeysAscending(ChildKeys(p))
    IN  [i \in 1..Len(ks) |-> shortcuts[p][ks[i]]]

\* NeroFS::GetCurrentShortcutsMap(): display name -> hash; a name stored under
\* two keys keeps the key inserted last (the greatest)
GetCurrentShortcutsMap(p, nm) ==
    LET hs == {h \in ChildKeys(p) : shortcuts[p][h] = nm}
    IN  IF hs = {} THEN NoHash ELSE CHOOSE h \in hs : \A g \in hs : g <= h

\* the list left in the order of the store
Unsorted(s) == {s}

\* QStringList::sort(Qt::CaseInsensitive): the orders a sort may leave the
\* list in (names equal under case folding may come out in either order)
SortedCI(s) ==
    LET n == Len(s)
        all == {[i \in 1..n |-> s[f[i]]] : f \in Permutations(1..n)}
    IN  {t \in all : \A i \in 1..(n - 1) : Fold(t[i]) <= Fold(t[i + 1])}

(* ------------------------- window helpers ----------------------------- *)
\* SetHeader(prefix): the page shown and the back button
SetHeader(prefix) ==
    IF prefix = NoPrefix
    THEN [sel |-> FALSE, en |-> FALSE, icon |-> "user-bookmarks"]
    ELSE [sel |-> TRUE, en |-> TRUE, icon |-> "go-previous"]

\* RenderPrefixes(): the prefix buttons are rebuilt from the store, unless the
\* store is empty (then the old buttons are left in place)
RenderPrefixes(store, buttons) == IF store = <<>> THEN buttons ELSE store

\* RenderPrefixList(): one row per sorted display name, carrying the hash the
\* shortcuts map gives for that name
RenderPrefixList(p, sorted) ==
    [i \in 1..Len(sorted) |->
        [live |-> TRUE, label |-> sorted[i], hash |-> GetCurrentShortcutsMap(p, sorted[i]),
         thread |-> 0, playing |-> FALSE]]

\* CleanupShortcuts(): every row widget is deleted and the lists are cleared
CleanupShortcuts == <<>>

\* a user click reaches the main window only when no dialog is open
Idle == ~crashed /\ dialog.kind = "none"
NoDialog == [kind |-> "none", slot |-> 0, canDelete |-> FALSE, name |-> NoPrefix,
             runner |-> "", setDefault |-> FALSE, verbs |-> <<>>, installed |-> <<>>]

\* no QProcess: outside CreatePrefix and the component installation
NoEnv == [WINEPREFIX |-> <<>>, GAMEID |-> <<>>, PROTONPATH |-> <<>>, PROTON_USE_XALIA |-> <<>>]
NoProcess ==
    [state |-> "none", flow |-> "none", program |-> <<>>, args |-> <<>>, env |-> NoEnv,
     lines |-> <<>>, nout |-> 0, text |-> "none"]

\* no system.reg read or written yet
NoFile == [read |-> <<>>, written |-> <<>>]

Op(o, i) == [op |-> o, info |-> i]

(* ------------------------------ Init ---------------------------------- *)
InitShortcuts ==
    [p \in PrefixNames |->
        IF p = "Games" THEN [h \in Hashes |-> IF h = 1 THEN 1 ELSE IF h = 2 THEN 3 ELSE NoName]
        ELSE IF p = "Work" THEN [h \in Hashes |-> IF h = 1 THEN 3 ELSE NoName]
        ELSE EmptyShortcuts]

\* The constructor (lines 37-126) does not assign runnerPrefixIsDefault, and
\* neromanager.cpp only reads it (line 539) and clears it (line 1118): the
\* window starts with either value.
Init ==
    /\ prefixes = <<"Games", "Work">>
    /\ shortcuts = InitShortcuts
    /\ prefixRunner = [p \in PrefixNames |-> IF p = "Games" THEN "GE-Proton" ELSE "Proton-Old"]
    /\ currentPrefix = NoPrefix
    /\ defaultPrefix = "Games"
    /\ prefixMainButton = prefixes
    /\ rows = <<>>
    /\ prefixIsSelected = FALSE
    /\ backEnabled = FALSE
    /\ backIcon = "user-bookmarks"
    /\ settingsEnabled = TRUE
    /\ tricksEnabled = TRUE
    /\ trayIcon = "systrayPhi"
    /\ trayToolTip = TipNeutral
    /\ currentlyRunning = <<>>
    /\ threadsCount = 0
    /\ umuController = <<>>
    /\ oneOffsRunning = <<>>
    /\ runnerPrefixIsDefault \in BOOLEAN
    /\ runnerWindow = FALSE
    /\ dialog = NoDialog
    /\ notifications = <<>>
    /\ umu = NoProcess
    /\ crashed = FALSE
    /\ manager = "running"
    /\ systemReg = NoFile
    /\ runnerDialogs = <<>>
    /\ lastOp = Op("init", <<>>)

(* ------------------------------ startup ------------------------------- *)
\* the process before the constructor has run: nothing is rendered, there
\* is no tray icon yet
InitStartup ==
    /\ prefixes = <<"Games", "Work">>
    /\ shortcuts = InitShortcuts
    /\ prefixRunner = [p \in PrefixNames |-> IF p = "Games" THEN "GE-Proton" ELSE "Proton-Old"]
    /\ currentPrefix = NoPrefix
    /\ defaultPrefix = "Games"
    /\ prefixMainButton = <<>>
    /\ rows = <<>>
    /\ prefixIsSelected = FALSE
    /\ backEnabled = FALSE
    /\ backIcon = "none"
    /\ settingsEnabled = TRUE
    /\ tricksEnabled = TRUE
    /\ trayIcon = "none"
    /\ trayToolTip = TipNeutral
    /\ currentlyRunning = <<>>
    /\ threadsCount = 0
    /\ umuController = <<>>
    /\ oneOffsRunning = <<>>
    /\ runnerPrefixIsDefault \in BOOLEAN
    /\ runnerWindow = FALSE
    /\ dialog = NoDialog
    /\ notifications = <<>>
    /\ umu = NoProcess
    /\ crashed = FALSE
    /\ manager = "starting"
    /\ systemReg = NoFile
    /\ runnerDialogs = <<>>
    /\ lastOp = Op("init", <<>>)

\* a constructor that takes the launcher and the paths for granted
LauncherAssumed(umuFound, pathsOk) == FALSE

\* the conditions of lines 61 and 72: NeroFS::GetUmU() is empty, or
\* NeroFS::InitPaths() fails
LauncherMissing(umuFound, pathsOk) == ~umuFound \/ ~pathsOk

\* a constructor that goes on without runners
RunnersOptional(protonsFound) == FALSE

\* the condition of line 73: NeroFS::GetAvailableProtons() is empty
NoRunners(protonsFound) == ~protonsFound

\* CheckWinetricks (lines 426-437): the install-components button is enabled
\* exactly when NeroFS::GetWinetricks() is not empty
CheckWinetricks(winetricksFound) == winetricksFound

\* the constructor NeroManagerWindow::NeroManagerWindow (lines 37-126);
\* umuFound: the launcher was found, pathsOk: the result of InitPaths,
\* protonsFound: the list of available runners is not empty, winetricksFound:
\* NeroFS::GetWinetricks() is not empty
NeroManagerWindow(umuFound, pathsOk, protonsFound, winetricksFound) ==
    /\ manager = "starting"
    /\ lastOp' = Op("construct", <<IF umuFound THEN 1 ELSE 0, IF pathsOk THEN 1 ELSE 0,
                                   IF protonsFound THEN 1 ELSE 0>>)
    /\ IF LauncherMissing(umuFound, pathsOk) \/ NoRunners(protonsFound)
       THEN /\ manager' = "exit1"
            /\ UNCHANGED <<prefixMainButton, prefixIsSelected, backEnabled, backIcon,
                           tricksEnabled, trayIcon, trayToolTip>>
       ELSE /\ manager' = "running"
            /\ trayIcon' = "systrayPhi"
            /\ trayToolTip' = TipNeutral
            /\ tricksEnabled' = CheckWinetricks(winetricksFound)
            /\ prefixMainButton' = RenderPrefixes(prefixes, prefixMainButton)
            /\ prefixIsSelected' = SetHeader(NoPrefix).sel
            /\ backEnabled' = SetHeader(NoPrefix).en
            /\ backIcon' = SetHeader(NoPrefix).icon
    /\ UNCHANGED <<prefixes, shortcuts, prefixRunner, currentPrefix, defaultPrefix, rows,
                   settingsEnabled, currentlyRunning, threadsCount,
                   umuController, oneOffsRunning, runnerPrefixIsDefault, runnerWindow,
                   dialog, notifications, umu, crashed, systemReg, runnerDialogs>>

(* ---------------- run controllers (NeroThreadController) -------------- *)
\* a worker that starts every run as a shortcut
WorkerCallShortcut(currentSlot) == "StartShortcut"

\* the call NeroThreadWorker::umuRunnerProcess makes (lines 1087-1093)
WorkerCall(currentSlot) == IF currentSlot >= 0 THEN "StartShortcut" ELSE "StartOnetime"

\* new NeroThreadController(slot, params, prefixAlreadyRunning), with the
\* "slot" property the window sets on it; the launch runs in the prefix that
\* is current when it is made, for the app shown under name
NewController(slot, param, group, tslot, name) ==
    [live |-> TRUE, slot |-> slot, param |-> param, group |-> group, tslot |-> tslot,
     prefix |-> currentPrefix, name |-> name, proc |-> "running", killed |-> FALSE,
     call |-> WorkerCall(slot), returned |-> -1, event |-> <<>>, text |-> <<>>,
     args |-> <<>>]

\* NeroThreadController::Stop() on entry j: the kill command goes to the whole
\* process tree of that controller's prefix
Stop(ctls, j) ==
    [i \in 1..Len(ctls) |->
        IF ctls[i].live /\ ctls[i].prefix = ctls[j].prefix
        THEN [ctls[i] EXCEPT !.killed = TRUE]
        ELSE ctls[i]]

RECURSIVE StopAllLoopNoBreak(_, _)
\* the stop-all loop without its break: Stop() on every non-null controller
StopAllLoopNoBreak(ctls, i) ==
    IF i <= 0 THEN <<>>
    ELSE IF ctls[i].live THEN <<i - 1>> \o StopAllLoopNoBreak(ctls, i - 1)
    ELSE StopAllLoopNoBreak(ctls, i - 1)

RECURSIVE StopAllLoop(_, _)
\* the loop of on_backButton_clicked: from the last thread index down, the
\* first non-null controller is stopped and the loop ends.  The result lists
\* the (0-based) indices Stop() is called on.
StopAllLoop(ctls, i) ==
    IF i <= 0 THEN <<>>
    ELSE IF ctls[i].live THEN <<i - 1>>
    ELSE StopAllLoop(ctls, i - 1)

RECURSIVE StopEach(_, _)
\* Stop() on each controller the loop names
StopEach(ctls, targets) ==
    IF targets = <<>> THEN ctls
    ELSE StopEach(Stop(ctls, Head(targets) + 1), Tail(targets))

Live(ctls) == {i \in 1..Len(ctls) : ctls[i].live}

\* a handler that indexes a list out of range or uses a freed widget
Crash(where) ==
    /\ crashed' = TRUE
    /\ lastOp' = Op(where, <<>>)
    /\ UNCHANGED <<prefixes, shortcuts, prefixRunner, currentPrefix, defaultPrefix,
                   prefixMainButton, rows, prefixIsSelected, backEnabled, backIcon,
                   settingsEnabled, tricksEnabled, trayIcon, trayToolTip,
                   currentlyRunning, threadsCount, umuController, oneOffsRunning,
                   runnerPrefixIsDefault, runnerWindow, dialog, notifications, umu,
                   manager, systemReg, runnerDialogs>>

storeVars == <<prefixes, shortcuts, prefixRunner, defaultPrefix, prefixMainButton>>

(* -------------------- the runner dialog (runnerWindow) ---------------- *)
\* the text NeroRunnerDialog::SetupWindow leaves in a new dialog
SetupText == "setup"

\* a dialog made whether or not one exists
NewRunnerDialogAlways(window, dialogs) == Append(dialogs, SetupText)

\* if(runnerWindow == nullptr) { runnerWindow = new NeroRunnerDialog(this);
\* ... } (lines 541-545, 637-641, 668-672, 729-740)
NewRunnerDialog(window, dialogs) == IF window THEN dialogs ELSE Append(dialogs, SetupText)

\* if(runnerWindow != nullptr) delete runnerWindow: the dialog the pointer
\* names, the one made last, is gone
DeleteRunnerDialog(window, dialogs) ==
    IF window THEN SubSeq(dialogs, 1, Len(dialogs) - 1) ELSE dialogs

\* runnerWindow->SetText(text)
SetText(dialogs, text) == [dialogs EXCEPT ![Len(dialogs)] = text]

(* --------------------------- navigation ------------------------------- *)
\* the settings left as they are
KeepRunner(settings, text) == settings

\* SetCurrentPrefixCfg("PrefixSettings", "CurrentRunner",
\* GetAvailableProtons().constFirst()) for the prefix text (line 584)
ResetRunner(settings, text) == [settings EXCEPT ![text] = AvailableProtons[1]]

\* prefixMainButtons_clicked, for the i-th prefix button; when the runner of
\* the prefix is not available it is reset and a warning box is shown
prefixMainButtons_clicked(i, winetricksFound) ==
    /\ Idle /\ ~prefixIsSelected
    /\ i \in 1..Len(prefixMainButton)
    /\ LET text == prefixMainButton[i]
           \* line 596; lines 600-606 overwrite what CheckWinetricks has set
           checked == CheckWinetricks(winetricksFound)
           change == currentPrefix # text
           badRunner == change /\ prefixRunner[text] \notin Range(AvailableProtons)
           hdr == SetHeader(text)
       IN  /\ currentPrefix' = text
           /\ IF change
              THEN \E sorted \in SortedCI(GetCurrentPrefixShortcuts(text)) :
                       rows' = RenderPrefixList(text, sorted)
              ELSE rows' = rows
           /\ prefixRunner' = IF badRunner
                              THEN ResetRunner(prefixRunner, text)
                              ELSE prefixRunner
           /\ prefixIsSelected' = hdr.sel
           /\ backEnabled' = hdr.en
           /\ backIcon' = hdr.icon
           /\ IF Len(currentlyRunning) > 0 /\ text = defaultPrefix
              THEN tricksEnabled' = FALSE /\ settingsEnabled' = FALSE
              ELSE tricksEnabled' = TRUE /\ settingsEnabled' = TRUE
           /\ lastOp' = Op("select", <<IF change THEN 1 ELSE 0, IF badRunner THEN 1 ELSE 0,
                                       IF winetricksFound THEN 1 ELSE 0>>)
    /\ UNCHANGED <<prefixes, shortcuts, defaultPrefix, prefixMainButton, trayIcon, trayToolTip,
                   currentlyRunning, threadsCount, umuController, oneOffsRunning,
                   runnerPrefixIsDefault, runnerWindow, dialog, notifications, umu, crashed, manager, systemReg, runnerDialogs>>

\* on_backButton_clicked, the stop-all branch (lines 540-552)
BackStopAll ==
    IF threadsCount > Len(umuController)
    THEN Crash("crashBack")
    ELSE LET targets == StopAllLoop(umuController, threadsCount)
         IN  /\ runnerWindow' = TRUE
             /\ runnerDialogs' = NewRunnerDialog(runnerWindow, runnerDialogs)
             /\ umuController' = StopEach(umuController, targets)
             /\ lastOp' = Op("stopAll", targets)
             /\ UNCHANGED <<storeVars, currentPrefix, rows, prefixIsSelected, backEnabled,
                            backIcon, settingsEnabled, tricksEnabled, trayIcon, trayToolTip,
                            currentlyRunning, threadsCount, oneOffsRunning,
                            runnerPrefixIsDefault, dialog, notifications, umu, crashed, manager, systemReg>>

\* on_backButton_clicked, the page toggling (lines 562-568)
BackNavigate ==
    LET hdr == SetHeader(NoPrefix)
        running == Len(currentlyRunning) > 0
    IN  /\ prefixIsSelected' = hdr.sel
        /\ backEnabled' = (IF running THEN TRUE ELSE hdr.en)
        /\ backIcon' = (IF running THEN "media-playback-stop" ELSE hdr.icon)
        /\ lastOp' = Op("back", <<>>)
        /\ UNCHANGED <<storeVars, currentPrefix, rows, settingsEnabled, tricksEnabled,
                       trayIcon, trayToolTip, currentlyRunning, threadsCount, umuController,
                       oneOffsRunning, runnerPrefixIsDefault, runnerWindow, dialog,
                       notifications, umu, crashed, manager, systemReg, runnerDialogs>>

\* a back button that kills whenever runs are active
BackKillsAlways == TRUE

\* the condition of line 539: the apps are killed unless they were started
\* through the default prefix and a prefix page is shown
BackKills == ~(prefixIsSelected /\ runnerPrefixIsDefault)

on_backButton_clicked ==
    /\ Idle /\ backEnabled
    /\ IF Len(currentlyRunning) > 0
       THEN IF BackKills THEN BackStopAll ELSE BackNavigate
       ELSE prefixIsSelected /\ BackNavigate

(* ----------------------------- launches ------------------------------- *)
\* a group flag set from the third concurrent launch on
IsGroupRunFromThird(count) == count > 2

\* the condition of lines 674, 743 and 768 on currentlyRunning.count(): the
\* controller is made with prefixAlreadyRunning = true
IsGroupRun(count) == count > 1

\* the value of prefixAlreadyRunning when line 676 leaves it out (the
\* default of the constructor's third parameter)
PrefixAlreadyRunningDefault == FALSE

\* the aggregate status text after a start (lines 661-663, 725-727)
StartToolTip(count, name) ==
    IF count > 1 THEN TipCount(currentPrefix, count) ELSE TipName(currentPrefix, name)

\* prefixShortcutPlayButtons_clicked on a row that is in currentlyRunning
\* (lines 636-643): Stop() on the controller the button's "thread" names
PlayStop(slot) ==
    LET t == rows[slot + 1].thread
    IN  IF t + 1 > Len(umuController) \/ ~umuController[t + 1].live
        THEN Crash("crashPlayStop")
        ELSE /\ runnerWindow' = TRUE
             /\ runnerDialogs' = NewRunnerDialog(runnerWindow, runnerDialogs)
             /\ umuController' = Stop(umuController, t + 1)
             /\ lastOp' = Op("playStop", <<slot, t>>)
             /\ UNCHANGED <<storeVars, currentPrefix, rows, prefixIsSelected, backEnabled,
                            backIcon, settingsEnabled, tricksEnabled, trayIcon, trayToolTip,
                            currentlyRunning, threadsCount, oneOffsRunning,
                            runnerPrefixIsDefault, dialog, notifications, umu, crashed, manager, systemReg>>

\* the launch of the shortcut on row slot (lines 651-682)
PlayStart(slot) ==
    LET row == rows[slot + 1]
        running == Append(currentlyRunning, slot)
        group == IF IsGroupRun(Len(running)) THEN TRUE ELSE PrefixAlreadyRunningDefault
    IN  /\ threadsCount < MaxThreads
        /\ settingsEnabled' = FALSE
        /\ tricksEnabled' = FALSE
        /\ backIcon' = "media-playback-stop"
        /\ trayIcon' = "systrayPhiPlaying"
        /\ threadsCount' = threadsCount + 1
        /\ currentlyRunning' = running
        /\ trayToolTip' = StartToolTip(Len(running), row.label)
        /\ runnerWindow' = TRUE
        /\ runnerDialogs' = NewRunnerDialog(runnerWindow, runnerDialogs)
        /\ umuController' =
               Append(umuController, NewController(slot, row.hash, group, threadsCount' - 1, row.label))
        /\ rows' = [rows EXCEPT ![slot + 1] =
                        [@ EXCEPT !.playing = TRUE, !.thread = threadsCount' - 1]]
        /\ lastOp' = Op("start", <<>>)
        /\ UNCHANGED <<storeVars, currentPrefix, prefixIsSelected, backEnabled, oneOffsRunning,
                       runnerPrefixIsDefault, dialog, notifications, umu, crashed, manager, systemReg>>

\* a missing-target branch that runs after the two setEnabled(false) calls of
\* the launch
PlayMissingDisables(slot) ==
    /\ settingsEnabled' = FALSE
    /\ tricksEnabled' = FALSE
    /\ lastOp' = Op("playMissing", <<>>)
    /\ UNCHANGED <<storeVars, currentPrefix, rows, prefixIsSelected, backEnabled, backIcon,
                   trayIcon, trayToolTip, currentlyRunning, threadsCount, umuController,
                   oneOffsRunning, runnerPrefixIsDefault, runnerWindow, dialog,
                   notifications, umu, crashed, manager, systemReg, runnerDialogs>>

\* the target file is missing (lines 683-688): a message box, nothing else
PlayMissing(slot) ==
    /\ lastOp' = Op("playMissing", <<>>)
    /\ UNCHANGED <<storeVars, currentPrefix, rows, prefixIsSelected, backEnabled, backIcon,
                   settingsEnabled, tricksEnabled, trayIcon, trayToolTip, currentlyRunning,
                   threadsCount, umuController, oneOffsRunning, runnerPrefixIsDefault,
                   runnerWindow, dialog, notifications, umu, crashed, manager, systemReg, runnerDialogs>>

\* a click that never finds its row among the runs
IsRunningNever(slot) == FALSE

\* currentlyRunning.contains(slot) (line 636)
IsRunning(slot) == slot \in Range(currentlyRunning)

\* prefixShortcutPlayButtons_clicked, sent by the play button of row slot;
\* fileExists is the outcome of QFileInfo::exists on the shortcut's path
prefixShortcutPlayButtons_clicked(slot, fileExists) ==
    /\ Idle /\ prefixIsSelected
    /\ slot + 1 \in 1..Len(rows) /\ rows[slot + 1].live
    /\ IF IsRunning(slot)
       THEN PlayStop(slot)
       ELSE IF fileExists THEN PlayStart(slot) ELSE PlayMissing(slot)

\* the characters of the text typed in ui->oneTimeRunArgs
Space == " "
Quote == "\""
ArgChars == {"a", Space, Quote}

RECURSIVE TextsOfLen(_)
TextsOfLen(n) ==
    IF n = 0 THEN {<<>>}
    ELSE {Append(t, c) : t \in TextsOfLen(n - 1), c \in ArgChars}

ArgTexts == UNION {TextsOfLen(n) : n \in 0..MaxArgLen}

\* args.last().append(chara)
AppendToLast(args, chara) ==
    [args EXCEPT ![Len(args)] = Append(args[Len(args)], chara)]

\* the quote case without its fall-through into the space case
SplitCharaNoFallThrough(st, chara) ==
    IF ~st.quotation
    THEN IF chara # Space /\ chara # Quote
         THEN [st EXCEPT !.args = AppendToLast(st.args, chara)]
         ELSE IF chara = Quote
              THEN [st EXCEPT !.quotation = TRUE]
              ELSE [st EXCEPT !.args = IF st.args[Len(st.args)] # <<>>
                                       THEN Append(st.args, <<>>) ELSE st.args]
    ELSE IF chara # Quote
         THEN [st EXCEPT !.args = AppendToLast(st.args, chara)]
         ELSE [args |-> Append(st.args, <<>>), quotation |-> FALSE]

\* one pass of the loop over the characters of buf: outside a quotation a
\* quote sets the flag and falls through into the space case, which opens a
\* new argument if the last one is not empty; inside a quotation a quote
\* clears the flag and always opens a new argument
SplitChara(st, chara) ==
    IF ~st.quotation
    THEN IF chara # Space /\ chara # Quote
         THEN [st EXCEPT !.args = AppendToLast(st.args, chara)]
         ELSE [args |-> IF st.args[Len(st.args)] # <<>>
                        THEN Append(st.args, <<>>) ELSE st.args,
               quotation |-> (chara = Quote)]
    ELSE IF chara # Quote
         THEN [st EXCEPT !.args = AppendToLast(st.args, chara)]
         ELSE [args |-> Append(st.args, <<>>), quotation |-> FALSE]

RECURSIVE SplitLoop(_, _, _)
SplitLoop(buf, i, st) ==
    IF i > Len(buf) THEN st ELSE SplitLoop(buf, i + 1, SplitChara(st, buf[i]))

\* the argument list built from the text: args starts as one empty string,
\* and an empty last string is removed after the loop
SplitArgs(buf) ==
    LET args == SplitLoop(buf, 1, [args |-> << <<>> >>, quotation |-> FALSE]).args
    IN  IF args[Len(args)] = <<>> THEN SubSeq(args, 1, Len(args) - 1) ELSE args

\* on_oneTimeRunBtn_clicked; app is the base name of the chosen file, NoName
\* when the file dialog was cancelled; text is the text of ui->oneTimeRunArgs,
\* kept with the controller that was given the arguments split from it
on_oneTimeRunBtn_clicked(app, text) ==
    /\ Idle /\ prefixIsSelected
    /\ IF app = NoName
       THEN /\ lastOp' = Op("other", <<>>)
            /\ UNCHANGED <<storeVars, currentPrefix, rows, prefixIsSelected, backEnabled,
                           backIcon, settingsEnabled, tricksEnabled, trayIcon, trayToolTip,
                           currentlyRunning, threadsCount, umuController, oneOffsRunning,
                           runnerPrefixIsDefault, runnerWindow, dialog, notifications, umu, crashed, manager, systemReg, runnerDialogs>>
       ELSE LET running == Append(currentlyRunning, -1)
                group == IsGroupRun(Len(running))
            IN  /\ threadsCount < MaxThreads
                /\ settingsEnabled' = FALSE
                /\ tricksEnabled' = FALSE
                /\ backEnabled' = TRUE
                /\ backIcon' = "media-playback-stop"
                /\ trayIcon' = "systrayPhiPlaying"
                /\ threadsCount' = threadsCount + 1
                /\ currentlyRunning' = running
                /\ trayToolTip' = StartToolTip(Len(running), app)
                /\ runnerWindow' = TRUE
                /\ runnerDialogs' = NewRunnerDialog(runnerWindow, runnerDialogs)
                /\ umuController' =
                       Append(umuController,
                              [NewController(-1, app, group, threadsCount' - 1, app)
                                   EXCEPT !.text = text,
                                          !.args = IF text = <<>> THEN <<>>
                                                   ELSE SplitArgs(text)])
                /\ oneOffsRunning' = Append(oneOffsRunning, app)
                /\ lastOp' = Op("start", <<>>)
                /\ UNCHANGED <<storeVars, currentPrefix, rows, prefixIsSelected,
                               runnerPrefixIsDefault, dialog, notifications, umu, crashed, manager, systemReg>>

(* ------------------------- workers and results ------------------------ *)
\* NeroThreadWorker::umuRunnerProcess of controller j: the call of the runner
\* returns result, then umuExited(currentSlot, result) is emitted (delivered
\* later)
umuRunnerProcess(j, result) ==
    /\ ~crashed
    /\ j \in Live(umuController) /\ umuController[j].proc = "running"
    /\ result \in ExitCodes
    /\ umuController' = [umuController EXCEPT ![j].proc = "exited", ![j].returned = result,
                                              ![j].event = <<umuController[j].slot, result>>]
    /\ lastOp' = Op("other", <<>>)
    /\ UNCHANGED <<storeVars, currentPrefix, rows, prefixIsSelected, backEnabled, backIcon,
                   settingsEnabled, tricksEnabled, trayIcon, trayToolTip, currentlyRunning,
                   threadsCount, oneOffsRunning, runnerPrefixIsDefault, runnerWindow, dialog,
                   notifications, umu, crashed, manager, systemReg, runnerDialogs>>

\* the aggregate status text after an exit that leaves one run (lines 1127-1130)
\* or several (line 1131); rws and offs are the rows and the one-time names
RestToolTip(running, rws, offs) ==
    IF Len(running) = 1
    THEN IF running[1] # -1
         THEN TipName(currentPrefix, rws[running[1] + 1].label)
         ELSE TipName(currentPrefix, offs[1])
    ELSE TipCount(currentPrefix, Len(running))

\* the controller list with every entry kept
KeepController(ctls, threadSlot) == ctls

\* delete umuController[threadSlot]; umuController[threadSlot] = nullptr
\* (lines 1110-1111)
FreeController(ctls, threadSlot) == [ctls EXCEPT ![threadSlot + 1] = NoCtl]

\* handleUmuResults accesses rows and lists that must exist
ResultsAccessOk(ctl, running, offs) ==
    /\ ctl.slot >= 0 => (ctl.slot + 1 \in 1..Len(rows) /\ rows[ctl.slot + 1].live)
    /\ ctl.tslot + 1 \in 1..Len(umuController)
    /\ Len(running) = 1 =>
          IF running[1] # -1
          THEN running[1] + 1 \in 1..Len(rows) /\ rows[running[1] + 1].live
          ELSE offs # <<>>

\* handleUmuResults(buttonSlot, result), sent by controller j
handleUmuResults(j) ==
    /\ ~crashed
    /\ j \in Live(umuController) /\ umuController[j].proc = "exited"
    /\ LET ctl == umuController[j]
           running == RemoveOne(currentlyRunning, ctl.slot)
           offs == IF ctl.slot >= 0 THEN oneOffsRunning
                   ELSE RemoveOne(oneOffsRunning, ctl.param)
       IN  IF ~ResultsAccessOk(ctl, running, offs)
           THEN Crash("crashResults")
           ELSE /\ rows' = IF ctl.slot >= 0
                           THEN [rows EXCEPT ![ctl.slot + 1].playing = FALSE]
                           ELSE rows
                /\ currentlyRunning' = running
                /\ IF Len(running) = 0
                   THEN /\ oneOffsRunning' = offs
                        /\ threadsCount' = 0
                        /\ umuController' = <<>>
                        /\ runnerPrefixIsDefault' = FALSE
                        /\ IF prefixIsSelected
                           THEN /\ backIcon' = "go-previous"
                                /\ UNCHANGED <<prefixIsSelected, backEnabled>>
                           ELSE /\ prefixIsSelected' = SetHeader(NoPrefix).sel
                                /\ backEnabled' = SetHeader(NoPrefix).en
                                /\ backIcon' = SetHeader(NoPrefix).icon
                        /\ trayIcon' = "systrayPhi"
                        /\ trayToolTip' = TipNeutral
                        /\ settingsEnabled' = TRUE
                        /\ tricksEnabled' = TRUE
                   ELSE /\ oneOffsRunning' = offs
                        /\ umuController' = FreeController(umuController, ctl.tslot)
                        /\ trayToolTip' = RestToolTip(running, rows, offs)
                        /\ UNCHANGED <<threadsCount, runnerPrefixIsDefault, prefixIsSelected,
                                       backEnabled, backIcon, trayIcon, settingsEnabled,
                                       tricksEnabled>>
                /\ runnerWindow' = FALSE
                /\ runnerDialogs' = DeleteRunnerDialog(runnerWindow, runnerDialogs)
                /\ lastOp' = Op("result", <<>>)
                /\ UNCHANGED <<storeVars, currentPrefix, dialog, notifications, umu, crashed, manager, systemReg>>

(* ------- the subprocess of prefix creation and component install ------ *)
\* an environment in which PROTON_USE_XALIA is not inserted
EnvWithoutXalia(newPrefix, runner) ==
    [WINEPREFIX |-> GetPrefixesPath \o <<"/", newPrefix>>,
     GAMEID |-> Str("0"),
     PROTONPATH |-> GetProtonsPath \o <<"/", runner>>,
     PROTON_USE_XALIA |-> <<>>]

\* the environment CreatePrefix gives the subprocess (lines 293-302)
CreatePrefixEnv(newPrefix, runner) ==
    [WINEPREFIX |-> GetPrefixesPath \o <<"/", newPrefix>>,
     GAMEID |-> Str("0"),
     PROTONPATH |-> GetProtonsPath \o <<"/", runner>>,
     PROTON_USE_XALIA |-> Str("0")]

\* the environment tricksWindow_result gives the subprocess (lines 850-862);
\* prefix is the current prefix, runner its CurrentRunner setting
TricksEnv(prefix, runner) ==
    [WINEPREFIX |-> GetPrefixesPath \o <<"/", prefix>>,
     GAMEID |-> Str("0"),
     PROTONPATH |-> GetProtonsPath \o <<"/", runner>>,
     PROTON_USE_XALIA |-> Str("0")]

\* the two registry deletions put before the winetricks call (lines 316-317,
\* 870-871), each followed by &&
RegNETFramework == "reg delete HKLM/Software/Wow6432Node/Microsoft/.NETFramework /f"
RegNETSetup == "reg delete HKLM/Software/Wow6432Node/Microsoft/NET Framework Setup /f"
DotnetCleanup ==
    GetUmU \o <<" ", RegNETFramework, " && ">> \o GetUmU \o <<" ", RegNETSetup, " && ">>

\* the winetricks call: the launcher, then the list joined by spaces
InstallCommand(list) == GetUmU \o <<" ">> \o Join(list, " ")

\* a cleanup made for every list
CleanupAlways(list) == TRUE

\* the condition of line 314, on the list "winetricks" was prepended to
CreateNeedsCleanup(list) == Filter(list, "dotnet") # <<>>

\* the shell command of CreatePrefix for a non-empty list (lines 309-321)
CreateCommand(tricksToInstall) ==
    LET list == <<Str("winetricks")>> \o tricksToInstall
    IN  IF CreateNeedsCleanup(list)
        THEN DotnetCleanup \o InstallCommand(list)
        ELSE InstallCommand(list)

\* umu.start(...) of CreatePrefix (lines 304-323)
CreateProcess(newPrefix, runner, tricksToInstall) ==
    [state |-> "running", flow |-> "create",
     program |-> IF tricksToInstall = <<>> THEN GetUmU ELSE Str("/bin/sh"),
     args |-> IF tricksToInstall = <<>> THEN <<Str("reg"), Str("/?")>>
              ELSE <<Str("-c"), CreateCommand(tricksToInstall)>>,
     env |-> CreatePrefixEnv(newPrefix, runner),
     lines |-> <<>>, nout |-> 0, text |-> "Please wait..."]

\* the condition of the prefix creation, which knows no installed verbs
TricksCleanupAsCreate(installedVerbs, list) == Filter(list, "dotnet") # <<>>

\* the condition of line 869: no dotnet verb installed yet, one requested
TricksNeedsCleanup(installedVerbs, list) ==
    Filter(installedVerbs, "dotnet") = <<>> /\ Filter(list, "dotnet") # <<>>

\* the shell command of tricksWindow_result (lines 864-876)
TricksCommand(installedVerbs, verbsToInstall) ==
    LET list == <<Str("winetricks")>> \o verbsToInstall
    IN  IF TricksNeedsCleanup(installedVerbs, list)
        THEN DotnetCleanup \o InstallCommand(list)
        ELSE InstallCommand(list)

\* umu.start("/bin/sh", argsList) of tricksWindow_result (line 877)
TricksProcess(prefix, runner, installedVerbs, verbsToInstall) ==
    [state |-> "running", flow |-> "tricks",
     program |-> Str("/bin/sh"),
     args |-> <<Str("-c"), TricksCommand(installedVerbs, verbsToInstall)>>,
     env |-> TricksEnv(prefix, runner),
     lines |-> <<>>, nout |-> 0, text |-> "Please wait..."]

(* ---------- the output loop of CreatePrefix / tricksWindow_result ----- *)
\* the substrings the loop looks for in a line
MarkerUpgrading == "Proton: Upgrading"
MarkerRuntime == "Downloading latest steamrt sniper"
MarkerVerbs == "Proton: Running winetricks verbs in prefix:"
Markers == {MarkerUpgrading, MarkerRuntime, MarkerVerbs}

\* lines the subprocess may complete: one with each marker, one with none
OutputLines ==
    {<<MarkerUpgrading, " prefix">>, <<"umu: ", MarkerRuntime>>, <<MarkerVerbs>>,
     <<"wine: configuration updated">>}

HasMarker(line) == \E m \in Markers : Contains(line, m)

\* the text of the wait box after a line was read (lines 340-348, 893-899)
WaitBoxText(stdout, text) ==
    IF Contains(stdout, MarkerUpgrading) THEN "upgrading"
    ELSE IF Contains(stdout, MarkerRuntime) THEN "runtime"
    ELSE IF Contains(stdout, MarkerVerbs) THEN "verbs"
    ELSE text

\* the body of one pass of the loop (lines 337-349, 890-900): if
\* canReadLine(), one line is read and looked at
ReadLine(p) ==
    IF p.lines = <<>> THEN p
    ELSE [p EXCEPT !.lines = Tail(@), !.text = WaitBoxText(Head(p.lines), @)]

\* the buffered lines with a marker that the last pass of the loop leaves
\* unread: the process has ended and the loop condition ends the loop
LostLines(p) == Len(SelectSeq(ReadLine(p).lines, HasMarker))

\* the subprocess completes a line of output, which QProcess buffers
umuWritesLine(line) ==
    /\ ~crashed /\ umu.state = "running" /\ umu.nout < MaxLines
    /\ line \in OutputLines
    /\ umu' = [umu EXCEPT !.lines = Append(@, line), !.nout = @ + 1]
    /\ lastOp' = Op("other", <<>>)
    /\ UNCHANGED <<storeVars, currentPrefix, rows, prefixIsSelected, backEnabled, backIcon,
                   settingsEnabled, tricksEnabled, trayIcon, trayToolTip, currentlyRunning,
                   threadsCount, umuController, oneOffsRunning, runnerPrefixIsDefault,
                   runnerWindow, dialog, notifications, crashed, manager, systemReg, runnerDialogs>>

\* one pass of the loop with a line to read, the subprocess still running at
\* the end of the pass (lines 332-350, 885-901)
umuLoopPass ==
    /\ ~crashed /\ umu.state = "running" /\ umu.lines # <<>>
    /\ dialog.kind \in {"creating", "installing"}
    /\ umu' = ReadLine(umu)
    /\ lastOp' = Op("other", <<>>)
    /\ UNCHANGED <<storeVars, currentPrefix, rows, prefixIsSelected, backEnabled, backIcon,
                   settingsEnabled, tricksEnabled, trayIcon, trayToolTip, currentlyRunning,
                   threadsCount, umuController, oneOffsRunning, runnerPrefixIsDefault,
                   runnerWindow, dialog, notifications, crashed, manager, systemReg, runnerDialogs>>

(* ------------------------ prefixes in the store ----------------------- *)
RECURSIVE Without(_, _)
Without(s, x) ==
    IF s = <<>> THEN <<>>
    ELSE IF Head(s) = x THEN Without(Tail(s), x)
    ELSE <<Head(s)>> \o Without(Tail(s), x)

\* prefixDeleteButtons_clicked, for the i-th delete button; yes is the answer
\* to the question box, ok the result of NeroFS::DeletePrefix
prefixDeleteButtons_clicked(i, yes, ok) ==
    /\ Idle /\ ~prefixIsSelected
    /\ i \in 1..Len(prefixMainButton)
    /\ LET text == prefixMainButton[i]
           hdr == SetHeader(NoPrefix)
       IN  /\ ok => text \in Range(prefixes)
           /\ IF yes /\ ok
              THEN /\ prefixes' = Without(prefixes, text)
                   /\ shortcuts' = [shortcuts EXCEPT ![text] = EmptyShortcuts]
                   /\ rows' = IF currentPrefix = text THEN CleanupShortcuts ELSE rows
                   /\ prefixIsSelected' = hdr.sel
                   /\ backEnabled' = hdr.en
                   /\ backIcon' = hdr.icon
                   /\ prefixMainButton' = RenderPrefixes(prefixes', prefixMainButton)
                   /\ lastOp' = Op("deletePrefix", <<IF yes THEN 1 ELSE 0>>)
              ELSE /\ lastOp' = Op("other", <<>>)
                   /\ UNCHANGED <<prefixes, shortcuts, rows, prefixIsSelected, backEnabled,
                                  backIcon, prefixMainButton>>
    /\ UNCHANGED <<prefixRunner, currentPrefix, defaultPrefix, settingsEnabled, tricksEnabled,
                   trayIcon, trayToolTip, currentlyRunning, threadsCount, umuController,
                   oneOffsRunning, runnerPrefixIsDefault, runnerWindow, dialog, notifications, umu,
                   crashed, manager, systemReg, runnerDialogs>>

\* prefixWizard_result: the wizard was rejected, or accepted with a prefix
\* name not yet in the store, a runner, the make-default option and the
\* verbs to install; on acceptance CreatePrefix spawns the subprocess and
\* pumps its output
prefixWizard_result(accepted, name, runner, setDefault, verbsToInstall) ==
    /\ ~crashed /\ dialog.kind = "wizard"
    /\ IF accepted
       THEN /\ name \in PrefixNames \ Range(prefixes)
            /\ runner \in Range(AvailableProtons)
            /\ trayIcon' = "systrayPhiBusy"
            /\ verbsToInstall \in TricksLists
            /\ dialog' = [NoDialog EXCEPT !.kind = "creating", !.name = name,
                                          !.runner = runner, !.setDefault = setDefault,
                                          !.verbs = verbsToInstall]
            /\ umu' = CreateProcess(name, runner, verbsToInstall)
            /\ notifications' = <<>>
            /\ lastOp' = Op("other", <<>>)
            /\ UNCHANGED <<prefixIsSelected, backEnabled, backIcon, prefixMainButton>>
       ELSE /\ name = NoPrefix /\ runner = "" /\ ~setDefault /\ verbsToInstall = <<>>
            /\ dialog' = NoDialog
            /\ prefixIsSelected' = SetHeader(NoPrefix).sel
            /\ backEnabled' = SetHeader(NoPrefix).en
            /\ backIcon' = SetHeader(NoPrefix).icon
            /\ prefixMainButton' = RenderPrefixes(prefixes, prefixMainButton)
            /\ lastOp' = Op("other", <<>>)
            /\ UNCHANGED <<trayIcon, notifications, umu>>
    /\ UNCHANGED <<prefixes, shortcuts, prefixRunner, currentPrefix, defaultPrefix, rows,
                   settingsEnabled, tricksEnabled, trayToolTip, currentlyRunning, threadsCount,
                   umuController, oneOffsRunning, runnerPrefixIsDefault, runnerWindow, crashed, manager, systemReg, runnerDialogs>>

(* ------------------- the rewrite of system.reg ------------------------ *)
\* the text of a file is a sequence of pieces; "\n" ends a line
PortsHeader == "[Software\\\\Wine\\\\Ports]"
ComPorts ==
    <<"\"COM1\"=\"/dev/ttyACM0\"", "\n", "\"COM2\"=\"/dev/ttyACM1\"", "\n",
      "\"COM3\"=\"/dev/ttyACM2\"", "\n", "\"COM4\"=\"/dev/ttyACM3\"", "\n",
      "\"COM5\"=\"/dev/ttyS0\"", "\n">>

\* the lines of system.reg as Wine writes them, each ended by a newline: the
\* Ports section header with its timestamp, another section header, a line
\* that holds the Ports header but does not start with it, a value line
RegLines ==
    {<<PortsHeader, " 1700000000", "\n">>, <<"[Software\\\\Wine\\\\Fonts]", "\n">>,
     <<";", PortsHeader, "\n">>, <<"\"COM1\"=\"/dev/ttyACM0\"", "\n">>}

RECURSIVE Flatten(_)
Flatten(ls) == IF ls = <<>> THEN <<>> ELSE Head(ls) \o Flatten(Tail(ls))

\* the files CreatePrefix may find: up to MaxRegLines lines
RegFiles == {Flatten(ls) : ls \in UNION {[1..n -> RegLines] : n \in 0..MaxRegLines}}

\* the length of what QFile::readLine() returns at the start of text: up to
\* and with the first newline, or the rest of the file
LineLength(text) ==
    IF \E i \in 1..Len(text) : text[i] = "\n"
    THEN CHOOSE i \in 1..Len(text) : text[i] = "\n" /\ \A j \in 1..(i - 1) : text[j] # "\n"
    ELSE Len(text)

\* a line that holds the piece anywhere
HoldsPiece(line, piece) == Contains(line, piece)

\* QString::startsWith(piece)
StartsWith(line, piece) == line # <<>> /\ line[1] = piece

RECURSIVE RewriteReg(_)
\* the loop of lines 370-384 over the rest of the file: newReg gets every
\* line read, and the five COM lines after a line that starts with the Ports
\* header
RewriteReg(text) ==
    IF text = <<>> THEN <<>>
    ELSE LET n == LineLength(text)
             line == SubSeq(text, 1, n)
         IN  line \o (IF StartsWith(line, PortsHeader) THEN ComPorts ELSE <<>>)
                  \o RewriteReg(SubSeq(text, n + 1, Len(text)))

\* regFile after lines 367-388: read to its end, emptied, newReg written
RewrittenFile(reg) == [read |-> reg, written |-> RewriteReg(reg)]

\* post-processing entered on success only: exit code 0 and the marker file
PostProcessOnSuccessOnly(exitCode, marker) == exitCode = 0 /\ marker

\* post-processing never entered
PostProcessSkipped(exitCode, marker) == FALSE

\* the condition under which CreatePrefix rewrites system.reg and adds the
\* prefix to the store (line 365)
PostProcessEntered(exitCode, marker) == marker

\* the success message whatever the exit code
CreateNotificationSuccess(exitCode) == "created"

\* the tray message CreatePrefix shows (lines 352-362)
CreateNotification(exitCode) == IF exitCode = 0 THEN "created" ELSE "createError"

\* CreatePrefix from the last pass of the output loop, in which the end of the
\* subprocess is noticed (lines 332-350), then the rest of
\* prefixWizard_result (lines 935-944); marker: system.reg exists in the
\* prefix directory, supports: sysTray->supportsMessages(), reg: the text
\* of system.reg
CreatePrefixFinished(exitCode, marker, supports, reg) ==
    /\ ~crashed /\ dialog.kind = "creating"
    /\ systemReg' = IF PostProcessEntered(exitCode, marker) THEN RewrittenFile(reg)
                    ELSE systemReg
    /\ LET name == dialog.name
           post == PostProcessEntered(exitCode, marker)
           store == IF post THEN Append(prefixes, name) ELSE prefixes
           buttons == IF post THEN Append(prefixMainButton, name) ELSE prefixMainButton
       IN  /\ notifications' = IF supports THEN <<CreateNotification(exitCode)>> ELSE <<>>
           /\ prefixes' = store
           /\ prefixRunner' = IF post THEN [prefixRunner EXCEPT ![name] = dialog.runner]
                              ELSE prefixRunner
           /\ umu' = NoProcess
           /\ trayIcon' = "systrayPhi"
           /\ defaultPrefix' = IF dialog.setDefault THEN name ELSE defaultPrefix
           /\ dialog' = NoDialog
           /\ prefixIsSelected' = SetHeader(NoPrefix).sel
           /\ backEnabled' = SetHeader(NoPrefix).en
           /\ backIcon' = SetHeader(NoPrefix).icon
           /\ prefixMainButton' = RenderPrefixes(store, buttons)
           /\ lastOp' = Op("created", <<exitCode, IF marker THEN 1 ELSE 0,
                                        IF name \in Range(store) THEN 1 ELSE 0,
                                        IF supports THEN 1 ELSE 0, LostLines(umu)>>)
    /\ UNCHANGED <<shortcuts, currentPrefix, rows, settingsEnabled, tricksEnabled, trayToolTip,
                   currentlyRunning, threadsCount, umuController, oneOffsRunning,
                   runnerPrefixIsDefault, runnerWindow, crashed, manager, runnerDialogs>>

(* ------------------- preferences (neropreferences.cpp) ---------------- *)
\* on_managerSettings_clicked and the end of the dialog it shows: the
\* destructor ~NeroManagerPreferences writes the settings when the dialog was
\* accepted; currentText is the item of the defaultPrefix combo box, filled
\* from NeroFS::GetPrefixes() (no item when the store is empty)
NeroManagerPreferences_closed(accepted, currentText) ==
    /\ Idle
    /\ currentText \in (IF prefixes = <<>> THEN {NoPrefix} ELSE Range(prefixes))
    /\ defaultPrefix' = IF accepted THEN currentText ELSE defaultPrefix
    /\ lastOp' = Op("preferences", <<IF accepted THEN 1 ELSE 0>>)
    /\ UNCHANGED <<prefixes, shortcuts, prefixRunner, prefixMainButton, currentPrefix, rows,
                   prefixIsSelected, backEnabled, backIcon, settingsEnabled, tricksEnabled,
                   trayIcon, trayToolTip, currentlyRunning, threadsCount, umuController,
                   oneOffsRunning, runnerPrefixIsDefault, runnerWindow, dialog, notifications,
                   umu, crashed, manager, systemReg, runnerDialogs>>

(* --------------------- components (winetricks) ------------------------ *)
\* on_prefixTricksBtn_clicked: the tricks window is made and shown;
\* verbsInstalled is what winetricks.log of the current prefix lists
on_prefixTricksBtn_clicked(verbsInstalled) ==
    /\ Idle /\ prefixIsSelected /\ tricksEnabled
    /\ verbsInstalled \subseteq Verbs
    /\ dialog' = [NoDialog EXCEPT !.kind = "tricks", !.installed = Keys(verbsInstalled)]
    /\ lastOp' = Op("other", <<>>)
    /\ UNCHANGED <<storeVars, currentPrefix, rows, prefixIsSelected, backEnabled, backIcon,
                   settingsEnabled, tricksEnabled, trayIcon, trayToolTip, currentlyRunning,
                   threadsCount, umuController, oneOffsRunning, runnerPrefixIsDefault,
                   runnerWindow, notifications, umu, crashed, manager, systemReg, runnerDialogs>>

\* an installation started on acceptance alone
InstallUnconfirmed(accepted, yes) == accepted

\* the condition under which tricksWindow_result starts the installation
\* (lines 833-837): the window was accepted and the question answered Yes
InstallConfirmed(accepted, yes) == accepted /\ yes

\* tricksWindow_result, up to umu.start: selected is verbIsSelected of the
\* window, accepted its result, yes the answer to "Verbs Confirmation"
\* (asked only when the window was accepted)
tricksWindow_result(accepted, yes, selected) ==
    /\ ~crashed /\ dialog.kind = "tricks"
    /\ selected \subseteq Verbs
    /\ ~accepted => ~yes
    /\ LET verbsToInstall == Keys(selected)
       IN  IF InstallConfirmed(accepted, yes)
           THEN /\ trayIcon' = "systrayPhiBusy"
                /\ umu' = TricksProcess(currentPrefix, prefixRunner[currentPrefix],
                                        dialog.installed, verbsToInstall)
                /\ dialog' = [dialog EXCEPT !.kind = "installing", !.verbs = verbsToInstall]
                /\ notifications' = <<>>
           ELSE /\ dialog' = IF accepted
                             THEN [dialog EXCEPT !.verbs = verbsToInstall]
                             ELSE NoDialog
                /\ UNCHANGED <<trayIcon, umu, notifications>>
    /\ lastOp' = Op("tricks", <<IF accepted THEN 1 ELSE 0, IF yes THEN 1 ELSE 0>>)
    /\ UNCHANGED <<storeVars, currentPrefix, rows, prefixIsSelected, backEnabled, backIcon,
                   settingsEnabled, tricksEnabled, trayToolTip, currentlyRunning,
                   threadsCount, umuController, oneOffsRunning, runnerPrefixIsDefault,
                   runnerWindow, crashed, manager, systemReg, runnerDialogs>>

\* the tray message of the installation (lines 904-913)
TricksNotification(exitCode) == IF exitCode # 0 THEN "tricksError" ELSE "tricksFinished"

\* tricksWindow_result from the last pass of the output loop, in which the
\* end of the subprocess is noticed (lines 885-901)
TricksInstallFinished(exitCode, supports) ==
    /\ ~crashed /\ dialog.kind = "installing"
    /\ notifications' = IF supports THEN <<TricksNotification(exitCode)>> ELSE <<>>
    /\ trayIcon' = "systrayPhi"
    /\ umu' = NoProcess
    /\ dialog' = NoDialog
    /\ lastOp' = Op("installed", <<exitCode, IF supports THEN 1 ELSE 0, LostLines(umu)>>)
    /\ UNCHANGED <<storeVars, currentPrefix, rows, prefixIsSelected, backEnabled, backIcon,
                   settingsEnabled, tricksEnabled, trayToolTip, currentlyRunning,
                   threadsCount, umuController, oneOffsRunning, runnerPrefixIsDefault,
                   runnerWindow, crashed, manager, systemReg, runnerDialogs>>

(* ----------------------------- shortcuts ------------------------------ *)
\* a generator that keeps its first candidate
FirstDraw(keys, draws) == IF draws = <<>> THEN NoHash ELSE Head(draws)

RECURSIVE GenerateHash(_, _)
\* the hash loop of on_addButton_clicked (lines 459-469): draws is the
\* sequence of values the random source yields; a candidate that is among
\* the existing keys is replaced by the next draw.  NoHash: the loop is
\* still running after the draws considered.
GenerateHash(keys, draws) ==
    IF draws = <<>> THEN NoHash
    ELSE IF Head(draws) \in keys THEN GenerateHash(keys, Tail(draws))
    ELSE Head(draws)

RECURSIVE Rerolls(_, _)
\* the number of candidates the hash loop replaces
Rerolls(keys, draws) ==
    IF draws = <<>> \/ Head(draws) \notin keys THEN 0
    ELSE 1 + Rerolls(keys, Tail(draws))

\* NeroFS::AddNewShortcut(hash, name, path)
AddNewShortcut(store, p, hash, name) == [store EXCEPT ![p][hash] = name]

\* on_addButton_clicked: on a prefix page a shortcut named name is added,
\* on the prefix list the prefix wizard is opened
on_addButton_clicked(name, draws) ==
    /\ Idle
    /\ IF prefixIsSelected
       THEN LET hashName == GenerateHash(ChildKeys(currentPrefix), draws)
                hdr == SetHeader(currentPrefix)
            IN  /\ currentPrefix \in PrefixNames
                /\ name \in Names
                /\ Cardinality(ChildKeys(currentPrefix)) < MaxShortcuts
                /\ Len(rows) < MaxRows
                /\ hashName # NoHash
                /\ shortcuts' = AddNewShortcut(shortcuts, currentPrefix, hashName, name)
                /\ rows' = Append(rows, [live |-> TRUE, label |-> name, hash |-> hashName,
                                         thread |-> 0, playing |-> FALSE])
                /\ prefixIsSelected' = hdr.sel
                /\ backEnabled' = hdr.en
                /\ backIcon' = hdr.icon
                /\ lastOp' = Op("addShortcut", <<hashName, Rerolls(ChildKeys(currentPrefix), draws)>>)
                /\ UNCHANGED dialog
       ELSE /\ name = NoName /\ draws = <<>>
            /\ dialog' = [NoDialog EXCEPT !.kind = "wizard"]
            /\ lastOp' = Op("other", <<>>)
            /\ UNCHANGED <<shortcuts, rows, prefixIsSelected, backEnabled, backIcon>>
    /\ UNCHANGED <<prefixes, prefixRunner, currentPrefix, defaultPrefix, prefixMainButton,
                   settingsEnabled, tricksEnabled, trayIcon, trayToolTip, currentlyRunning,
                   threadsCount, umuController, oneOffsRunning, runnerPrefixIsDefault,
                   runnerWindow, notifications, umu, crashed, manager, systemReg, runnerDialogs>>

\* a dialog whose delete button is never disabled
DeleteEnabledAlways(running) == TRUE

\* lines 699-701: the delete button of the dialog is disabled when
\* currentlyRunning.count() is not zero
DeleteEnabled(running) == Len(running) = 0

\* prefixShortcutEditButtons_clicked, sent by the edit button of row slot
prefixShortcutEditButtons_clicked(slot) ==
    /\ Idle /\ prefixIsSelected
    /\ slot + 1 \in 1..Len(rows) /\ rows[slot + 1].live
    /\ dialog' = [NoDialog EXCEPT !.kind = "settings", !.slot = slot,
                                  !.canDelete = DeleteEnabled(currentlyRunning)]
    /\ lastOp' = Op("other", <<>>)
    /\ UNCHANGED <<storeVars, currentPrefix, rows, prefixIsSelected, backEnabled, backIcon,
                   settingsEnabled, tricksEnabled, trayIcon, trayToolTip, currentlyRunning,
                   threadsCount, umuController, oneOffsRunning, runnerPrefixIsDefault,
                   runnerWindow, notifications, umu, crashed, manager, systemReg, runnerDialogs>>

\* the registry key prefixSettings_result acts on for the shortcut shown on
\* row slot (lines 963-964, 981-982): the key the shortcuts map gives for
\* the row's label
SettingsKey(slot) == GetCurrentShortcutsMap(currentPrefix, rows[slot + 1].label)

\* the rename branch of prefixSettings_result (lines 962-977)
RenameShortcut(slot, appName) ==
    LET key == SettingsKey(slot)
    IN  /\ shortcuts' = IF key # NoHash /\ currentPrefix \in PrefixNames
                        THEN [shortcuts EXCEPT ![currentPrefix][key] = appName]
                        ELSE shortcuts
        /\ rows' = [rows EXCEPT ![slot + 1].label = appName]
        /\ UNCHANGED <<prefixIsSelected, backEnabled, backIcon>>

\* the delete branch of prefixSettings_result (lines 980-994)
DeleteShortcut(slot) ==
    LET key == SettingsKey(slot)
        hdr == SetHeader(currentPrefix)
    IN  /\ shortcuts' = IF key # NoHash /\ currentPrefix \in PrefixNames
                        THEN [shortcuts EXCEPT ![currentPrefix][key] = NoName]
                        ELSE shortcuts
        /\ rows' = [rows EXCEPT ![slot + 1] = NoRow]
        /\ prefixIsSelected' = hdr.sel
        /\ backEnabled' = hdr.en
        /\ backIcon' = hdr.icon

\* prefixSettings_result for the shortcut dialog of row dialog.slot; result
\* is the dialog's result code, appName the name left in the dialog
prefixSettings_result(result, appName) ==
    /\ ~crashed /\ dialog.kind = "settings"
    /\ result \in {"accepted", "rejected", "delete"}
    /\ result = "delete" => dialog.canDelete
    /\ LET slot == dialog.slot
       IN  IF ~(slot + 1 \in 1..Len(rows) /\ rows[slot + 1].live) /\ result # "rejected"
           THEN Crash("crashSettings")
           ELSE /\ IF result = "accepted" /\ appName # rows[slot + 1].label
                   THEN RenameShortcut(slot, appName) /\ lastOp' = Op("rename", <<slot>>)
                   ELSE IF result = "delete"
                   THEN DeleteShortcut(slot) /\ lastOp' = Op("deleteShortcut", <<slot>>)
                   ELSE /\ lastOp' = Op("other", <<>>)
                        /\ UNCHANGED <<shortcuts, rows, prefixIsSelected, backEnabled, backIcon>>
                /\ dialog' = NoDialog
                /\ UNCHANGED <<prefixes, prefixRunner, currentPrefix, defaultPrefix,
                               prefixMainButton, settingsEnabled, tricksEnabled, trayIcon,
                               trayToolTip, currentlyRunning, threadsCount, umuController,
                               oneOffsRunning, runnerPrefixIsDefault, runnerWindow,
                               notifications, umu, crashed, manager, systemReg, runnerDialogs>>

(* --------------------------- phase signals ---------------------------- *)
Signals == {"RunnerStarting", "RunnerUpdated", "RunnerProtonStarted",
            "RunnerProtonStopping", "RunnerProtonStopped"}

\* the values of NeroRunner's status enumeration, in its order
SignalCode(sig) ==
    CASE sig = "RunnerStarting" -> 1
      [] sig = "RunnerUpdated" -> 2
      [] sig = "RunnerProtonStarted" -> 3
      [] sig = "RunnerProtonStopping" -> 4
      [] sig = "RunnerProtonStopped" -> 5

\* the cases of the switch that delete the dialog (lines 1149-1152, 1156-1159)
SignalDeletesDialog(sig) == sig \in {"RunnerProtonStarted", "RunnerProtonStopped"}

\* the text the other cases set (lines 1143-1148, 1153-1155)
SignalText(sig) ==
    CASE sig = "RunnerStarting" -> "umu launching..."
      [] sig = "RunnerUpdated" -> "umu runtime updated, starting Proton..."
      [] sig = "RunnerProtonStopping" -> "Stopping Proton process..."

\* handleUmuSignal(signalType), sent by the runner of a live controller
handleUmuSignal(sig) ==
    /\ ~crashed
    /\ sig \in Signals
    /\ \E j \in Live(umuController) : umuController[j].proc = "running"
    /\ IF runnerWindow
       THEN IF SignalDeletesDialog(sig)
            THEN /\ runnerWindow' = FALSE
                 /\ runnerDialogs' = DeleteRunnerDialog(runnerWindow, runnerDialogs)
            ELSE /\ runnerWindow' = runnerWindow
                 /\ runnerDialogs' = SetText(runnerDialogs, SignalText(sig))
       ELSE UNCHANGED <<runnerWindow, runnerDialogs>>
    /\ lastOp' = Op("signal", <<SignalCode(sig)>>)
    /\ UNCHANGED <<storeVars, currentPrefix, rows, prefixIsSelected, backEnabled, backIcon,
                   settingsEnabled, tricksEnabled, trayIcon, trayToolTip, currentlyRunning,
                   threadsCount, umuController, oneOffsRunning, runnerPrefixIsDefault, dialog,
                   notifications, umu, crashed, manager, systemReg>>

(* --------------------------- specification ---------------------------- *)
Draws == UNION {[1..n -> Hashes] : n \in 1..MaxRolls}

Navigate ==
    \/ \E i \in 1..Cardinality(PrefixNames), winetricksFound \in BOOLEAN :
           prefixMainButtons_clicked(i, winetricksFound)
    \/ on_backButton_clicked

Launch ==
    \/ \E slot \in 0..(MaxRows - 1), fileExists \in BOOLEAN :
           prefixShortcutPlayButtons_clicked(slot, fileExists)
    \/ \E app \in OneTimeApps \cup {NoName} : on_oneTimeRunBtn_clicked(app, <<>>)

Workers ==
    \/ \E j \in 1..MaxThreads : umuRunnerProcess(j, 0)
    \/ \E j \in 1..MaxThreads : handleUmuResults(j)

\* the workers with every exit code (handleUmuResults does not read it)
WorkerResults ==
    \/ \E j \in 1..MaxThreads, result \in ExitCodes : umuRunnerProcess(j, result)
    \/ \E j \in 1..MaxThreads : handleUmuResults(j)

PrefixStore ==
    \/ \E i \in 1..Cardinality(PrefixNames), yes \in BOOLEAN, ok \in BOOLEAN :
           prefixDeleteButtons_clicked(i, yes, ok)
    \/ \E name \in PrefixNames, setDefault \in BOOLEAN, verbsToInstall \in TricksLists :
           prefixWizard_result(TRUE, name, AvailableProtons[1], setDefault, verbsToInstall)
    \/ prefixWizard_result(FALSE, NoPrefix, "", FALSE, <<>>)
    \/ \E exitCode \in ExitCodes, marker \in BOOLEAN, supports \in BOOLEAN :
           CreatePrefixFinished(exitCode, marker, supports, <<>>)

ShortcutStore ==
    \/ \E name \in Names, draws \in Draws : on_addButton_clicked(name, draws)
    \/ \E slot \in 0..(MaxRows - 1) : prefixShortcutEditButtons_clicked(slot)
    \/ \E result \in {"accepted", "rejected", "delete"}, appName \in Names :
           prefixSettings_result(result, appName)

DeletePrefix ==
    \E i \in 1..Cardinality(PrefixNames), yes \in BOOLEAN, ok \in BOOLEAN :
        prefixDeleteButtons_clicked(i, yes, ok)

\* runs, navigation and prefix deletion
Next == Navigate \/ Launch \/ Workers \/ DeletePrefix

Spec == Init /\ [][Next]_vars

\* a store with the one prefix "Games", no run started through the default prefix
InitOnePrefix ==
    /\ prefixes = <<"Games">>
    /\ shortcuts = [InitShortcuts EXCEPT !["Work"] = EmptyShortcuts]
    /\ prefixRunner = [p \in PrefixNames |-> "GE-Proton"]
    /\ currentPrefix = NoPrefix
    /\ defaultPrefix = NoPrefix
    /\ prefixMainButton = prefixes
    /\ rows = <<>>
    /\ prefixIsSelected = FALSE
    /\ backEnabled = FALSE
    /\ backIcon = "user-bookmarks"
    /\ settingsEnabled = TRUE
    /\ tricksEnabled = TRUE
    /\ trayIcon = "systrayPhi"
    /\ trayToolTip = TipNeutral
    /\ currentlyRunning = <<>>
    /\ threadsCount = 0
    /\ umuController = <<>>
    /\ oneOffsRunning = <<>>
    /\ runnerPrefixIsDefault = FALSE
    /\ runnerWindow = FALSE
    /\ dialog = NoDialog
    /\ notifications = <<>>
    /\ umu = NoProcess
    /\ crashed = FALSE
    /\ manager = "running"
    /\ systemReg = NoFile
    /\ runnerDialogs = <<>>
    /\ lastOp = Op("init", <<>>)

\* the runs of one prefix, with the exit codes their workers report
NextWorker == Navigate \/ Launch \/ WorkerResults

SpecWorker == InitOnePrefix /\ [][NextWorker]_vars

\* the runs of one prefix, with the phase signals of their runners
NextSignal ==
    \/ Navigate
    \/ Launch
    \/ Workers
    \/ \E sig \in Signals : handleUmuSignal(sig)

SpecSignal == InitOnePrefix /\ [][NextSignal]_vars

\* one-time runs of one prefix, one at a time, with every text of the
\* argument field
NextArgs ==
    \/ Navigate
    \/ \E app \in OneTimeApps \cup {NoName}, text \in ArgTexts :
           threadsCount = 0 /\ on_oneTimeRunBtn_clicked(app, text)
    \/ Workers

SpecArgs == InitOnePrefix /\ [][NextArgs]_vars

\* the shortcut store of a prefix, with runs of its shortcuts
NextShortcuts ==
    \/ Navigate
    \/ \E slot \in 0..(MaxRows - 1) : prefixShortcutPlayButtons_clicked(slot, TRUE)
    \/ Workers
    \/ ShortcutStore

SpecShortcuts == InitOnePrefix /\ [][NextShortcuts]_vars

\* the shortcuts of one prefix started, stopped and deleted
NextDelete ==
    \/ Navigate
    \/ \E slot \in 0..(MaxRows - 1) : prefixShortcutPlayButtons_clicked(slot, TRUE)
    \/ Workers
    \/ \E slot \in 0..(MaxRows - 1) : prefixShortcutEditButtons_clicked(slot)
    \/ \E result \in {"rejected", "delete"} : prefixSettings_result(result, NoName)

SpecDelete == InitOnePrefix /\ [][NextDelete]_vars

\* the shortcut store alone: shortcuts added, renamed and deleted, no runs
NextAdd == Navigate \/ ShortcutStore

SpecAdd == InitOnePrefix /\ [][NextAdd]_vars

\* the shortcut stores of two prefixes, rendered again at each change of prefix
InitRender == Init /\ ~runnerPrefixIsDefault

\* shortcuts named "app" added, shortcuts renamed "App" or "game", prefixes
\* selected
NextRender ==
    \/ Navigate
    \/ \E hash \in Hashes : on_addButton_clicked(1, <<hash>>)
    \/ \E slot \in 0..(MaxRows - 1) : prefixShortcutEditButtons_clicked(slot)
    \/ \E result \in {"accepted", "rejected"}, appName \in {2, 3} :
           prefixSettings_result(result, appName)

SpecRender == InitRender /\ [][NextRender]_vars

\* the prefix store: creation, deletion, selection
NextPrefixes == Navigate \/ PrefixStore \/ on_addButton_clicked(NoName, <<>>)

SpecPrefixes == Init /\ [][NextPrefixes]_vars

\* the prefix store and the preferences dialog
NextDefault ==
    \/ NextPrefixes
    \/ \E accepted \in BOOLEAN, currentText \in PrefixNames \cup {NoPrefix} :
           NeroManagerPreferences_closed(accepted, currentText)

SpecDefault == Init /\ [][NextDefault]_vars

\* the components of a prefix
Tricks ==
    \/ \E verbsInstalled \in SUBSET BaseVerbs : on_prefixTricksBtn_clicked(verbsInstalled)
    \/ \E accepted \in BOOLEAN, yes \in BOOLEAN, selected \in SUBSET BaseVerbs :
           tricksWindow_result(accepted, yes, selected)
    \/ \E exitCode \in ExitCodes, supports \in BOOLEAN :
           TricksInstallFinished(exitCode, supports)

\* prefixes created and deleted, components installed: the flows that ask
\* for confirmation and spawn the launcher
NextInstall == Navigate \/ PrefixStore \/ on_addButton_clicked(NoName, <<>>) \/ Tricks

SpecInstall == Init /\ [][NextInstall]_vars

\* the component installation of one prefix, with every verb
TricksAll ==
    \/ \E verbsInstalled \in SUBSET Verbs : on_prefixTricksBtn_clicked(verbsInstalled)
    \/ \E accepted \in BOOLEAN, yes \in BOOLEAN, selected \in SUBSET Verbs :
           tricksWindow_result(accepted, yes, selected)
    \/ \E exitCode \in ExitCodes, supports \in BOOLEAN :
           TricksInstallFinished(exitCode, supports)

NextTricks == Navigate \/ TricksAll

\* the output of the subprocess and the passes of the loop that reads it
Stream ==
    \/ \E line \in OutputLines : umuWritesLine(line)
    \/ umuLoopPass

\* one creation and one installation flow, with the output of the subprocess
NextStream ==
    \/ Navigate
    \/ on_addButton_clicked(NoName, <<>>)
    \/ \E name \in PrefixNames :
           prefixWizard_result(TRUE, name, AvailableProtons[1], FALSE, <<>>)
    \/ prefixWizard_result(FALSE, NoPrefix, "", FALSE, <<>>)
    \/ \E exitCode \in ExitCodes, marker \in BOOLEAN, supports \in BOOLEAN :
           CreatePrefixFinished(exitCode, marker, supports, <<>>)
    \/ on_prefixTricksBtn_clicked({})
    \/ \E accepted \in BOOLEAN, yes \in BOOLEAN :
           tricksWindow_result(accepted, yes, {<<"vcrun", "2019">>})
    \/ \E exitCode \in ExitCodes, supports \in BOOLEAN :
           TricksInstallFinished(exitCode, supports)
    \/ Stream

SpecStream == InitOnePrefix /\ [][NextStream]_vars

\* prefixes created one after the other, each with the system.reg it finds
NextReg ==
    \/ on_addButton_clicked(NoName, <<>>)
    \/ \E name \in PrefixNames :
           prefixWizard_result(TRUE, name, AvailableProtons[1], FALSE, <<>>)
    \/ prefixWizard_result(FALSE, NoPrefix, "", FALSE, <<>>)
    \/ \E exitCode \in ExitCodes, marker \in BOOLEAN, reg \in RegFiles :
           CreatePrefixFinished(exitCode, marker, TRUE, reg)

SpecReg == InitOnePrefix /\ [][NextReg]_vars

SpecTricks == InitOnePrefix /\ [][NextTricks]_vars

\* the process from its start: the constructor, then the slots of the window
\* while the process runs
NextStartup ==
    \/ \E umuFound \in BOOLEAN, pathsOk \in BOOLEAN, protonsFound \in BOOLEAN,
          winetricksFound \in BOOLEAN :
           NeroManagerWindow(umuFound, pathsOk, protonsFound, winetricksFound)
    \/ manager = "running" /\ NextPrefixes

SpecStartup == InitStartup /\ [][NextStartup]_vars

\* a killed process tree ends and its worker returns; the event loop delivers
\* every queued result event
KilledRunExits(j) ==
    /\ j \in Live(umuController) /\ umuController[j].killed
    /\ umuRunnerProcess(j, 0)

FairSpec ==
    /\ Spec
    /\ \A j \in 1..MaxThreads : WF_vars(KilledRunExits(j)) /\ WF_vars(handleUmuResults(j))

(* ------------------------------ claims -------------------------------- *)
\* the runs N >= 1 are all in the current prefix and a stop-all has just been made
C1_StopAllRequested ==
    /\ lastOp.op = "stopAll"
    /\ \A j \in Live(umuController) : umuController[j].prefix = currentPrefix

\* C1: after one stop-all request made while every active run is in the
\* current prefix, every run the request killed eventually exits and has its
\* result handled (no killed run is left among the controllers)
C1_StopAllEndsEveryRun ==
    C1_StopAllRequested ~> (\A j \in Live(umuController) : ~umuController[j].killed)

\* C2: a stop-all request calls Stop() on exactly one controller, that
\* controller is live, and the loop never runs off the controller list
C2_StopAllStopsOneLiveController ==
    /\ lastOp.op # "crashBack"
    /\ lastOp.op = "stopAll" =>
          /\ Len(lastOp.info) = 1
          /\ lastOp.info[1] + 1 \in Live(umuController)

\* a stop-all made while two or more runs are active
C2_StopAllWithSeveralRuns == lastOp.op = "stopAll" /\ Len(currentlyRunning) >= 2

\* C3: after a handled start or run exit the tray tooltip is the neutral text
\* with no run active, names the app and prefix of the one active run with
\* exactly one, and shows the count with two or more
C3_ToolTipMatchesRuns ==
    lastOp.op \in {"start", "result"} =>
        LET n == Len(currentlyRunning)
        IN  /\ n = 0 => trayToolTip = TipNeutral
            /\ n = 1 => \E j \in Live(umuController) :
                            trayToolTip = TipName(umuController[j].prefix, umuController[j].name)
            /\ n >= 2 => trayToolTip.kind = "count" /\ trayToolTip.n = n

\* C4: the click on a shortcut whose target file is missing leaves the run
\* state, the tray and the enabled state of the prefix actions as they were
C4_MissingTargetChangesNothing ==
    [][lastOp'.op = "playMissing" =>
          UNCHANGED <<currentlyRunning, threadsCount, umuController, oneOffsRunning,
                      trayToolTip, trayIcon, settingsEnabled, tricksEnabled, rows>>]_vars

\* a missing target reported while the prefix actions are enabled
C4_MissingTargetReported ==
    lastOp.op = "playMissing" /\ settingsEnabled /\ tricksEnabled

\* the outcome of the creation flow last finished
CreatedExit == lastOp.info[1]
CreatedMarker == lastOp.info[2] = 1
CreatedInStore == lastOp.info[3] = 1

\* C5 (as stated): after a nonzero exit the new prefix is not in the store
C5_NonzeroExitNotCommitted ==
    (lastOp.op = "created" /\ CreatedExit # 0) => ~CreatedInStore

\* C5 (amended): the new prefix is committed to the store exactly when the
\* marker file system.reg exists once the subprocess has ended, whatever the
\* exit code
C5_CommittedIffMarker ==
    lastOp.op = "created" => (CreatedInStore <=> CreatedMarker)

\* a creation that exits nonzero with the marker file present
C5_NonzeroExitWithMarker ==
    lastOp.op = "created" /\ CreatedExit # 0 /\ CreatedMarker /\ CreatedInStore

\* C6 (as stated): after exit code 0 the new prefix is in the store
C6_ZeroExitCommitted ==
    (lastOp.op = "created" /\ CreatedExit = 0) => CreatedInStore

\* C6 (amended): after exit code 0 with the marker file system.reg present
\* the new prefix is in the store
C6_ZeroExitWithMarkerCommitted ==
    (lastOp.op = "created" /\ CreatedExit = 0 /\ CreatedMarker) => CreatedInStore

\* a creation that exits 0 with the marker file present
C6_ZeroExitWithMarker ==
    lastOp.op = "created" /\ CreatedExit = 0 /\ CreatedMarker /\ CreatedInStore

\* C7: the hash an add-shortcut step stores the new shortcut under is not a
\* key of the prefix's shortcuts before the step
C7_NewHashIsFresh ==
    [][lastOp'.op = "addShortcut" =>
          lastOp'.info[1] \notin ChildKeys(currentPrefix)]_vars

\* a shortcut added after the first candidate collided with an existing key
C7_AddedAfterCollision == lastOp.op = "addShortcut" /\ lastOp.info[2] >= 1

\* C8: a rename leaves the row's hash as it was, changes in the store only
\* the name under that hash, and leaves the run bindings as they were
C8_RenameKeepsHashAndBinding ==
    [][lastOp'.op = "rename" =>
          LET i == lastOp'.info[1] + 1
              h == rows[i].hash
          IN  /\ rows'[i].hash = h
              /\ shortcuts' = [shortcuts EXCEPT ![currentPrefix][h] = rows'[i].label]
              /\ rows'[i].thread = rows[i].thread
              /\ UNCHANGED <<currentlyRunning, threadsCount, umuController>>]_vars

\* C9: a prefix deletion leaves every live controller with a prefix that is
\* in the store
C9_NoRunInDeletedPrefix ==
    lastOp.op = "deletePrefix" =>
        \A j \in Live(umuController) : umuController[j].prefix \in Range(prefixes)

\* C10: every active run was launched in the current prefix
C10_RunsBelongToCurrentPrefix ==
    \A j \in Live(umuController) : umuController[j].prefix = currentPrefix

\* C11: after any sequence of shortcut starts, one-time starts and handled
\* exits, the controller list has as many non-null entries as currentlyRunning
\* has entries, and the controller list is threadsCount long
C11_ControllersMatchRuns ==
    /\ Cardinality(Live(umuController)) = Len(currentlyRunning)
    /\ Len(umuController) = threadsCount

\* an exit has been handled that left one run and a null controller entry
C11_ExitHandledWithRunLeft ==
    /\ lastOp.op = "result"
    /\ Len(currentlyRunning) = 1
    /\ \E j \in 1..Len(umuController) : ~umuController[j].live

\* C12: a prefix leaves the store only in a step of the delete handler whose
\* question was answered Yes; the component installation is spawned only by
\* a tricks result that was accepted and confirmed with Yes; on No nothing is
\* spawned and the tricks window is shown again; on rejection nothing is
\* spawned and the window is gone
C12_DestructiveOnlyAfterYes ==
    [][ /\ Len(prefixes') < Len(prefixes) =>
              lastOp'.op = "deletePrefix" /\ lastOp'.info = <<1>>
        /\ (umu'.flow = "tricks" /\ umu.flow # "tricks") =>
              lastOp'.op = "tricks" /\ lastOp'.info = <<1, 1>>
        /\ (lastOp'.op = "tricks" /\ lastOp'.info = <<1, 0>>) =>
              /\ umu' = umu /\ umu'.state = "none"
              /\ dialog'.kind = "tricks" /\ dialog'.installed = dialog.installed
        /\ (lastOp'.op = "tricks" /\ lastOp'.info = <<0, 0>>) =>
              umu' = umu /\ umu'.state = "none" /\ dialog' = NoDialog
      ]_vars

\* the installation has been spawned after acceptance and Yes
C12_InstallSpawnedAfterYes ==
    /\ lastOp.op = "tricks" /\ lastOp.info = <<1, 1>>
    /\ umu.state = "running" /\ umu.flow = "tricks"

\* C13: while the subprocess of the creation flow or of the component
\* installation runs, its environment has WINEPREFIX = <prefixes path>/<prefix>,
\* GAMEID = 0, PROTONPATH = <runners path>/<runner> and PROTON_USE_XALIA = 0,
\* for the prefix and runner given to the creation, resp. the current prefix
\* and its CurrentRunner setting
C13_SubprocessEnvironment ==
    umu.state = "running" =>
        LET prefix == IF umu.flow = "create" THEN dialog.name ELSE currentPrefix
            runner == IF umu.flow = "create" THEN dialog.runner
                      ELSE prefixRunner[currentPrefix]
        IN  /\ umu.env.WINEPREFIX = GetPrefixesPath \o <<"/", prefix>>
            /\ umu.env.GAMEID = <<"0">>
            /\ umu.env.PROTONPATH = GetProtonsPath \o <<"/", runner>>
            /\ umu.env.PROTON_USE_XALIA = <<"0">>

\* a prefix is being created with a runner chosen in the wizard
C13_CreationSubprocessRunning ==
    /\ umu.state = "running" /\ umu.flow = "create"
    /\ dialog.kind = "creating" /\ dialog.name = "Test" /\ dialog.runner = "GE-Proton"

\* C14: when a prefix is created with a non-empty list of components, the
\* shell command is the winetricks call (the launcher, "winetricks", then the
\* components in the requested order), preceded by the two registry
\* deletions chained with && exactly when a component of the list is a
\* dotnet one
C14_CreationCommand ==
    (umu.state = "running" /\ umu.flow = "create" /\ dialog.verbs # <<>>) =>
        LET requested == dialog.verbs
            hasDotnet == \E i \in 1..Len(requested) : Contains(requested[i], "dotnet")
            call == GetUmU \o <<" ">> \o Join(<<Str("winetricks")>> \o requested, " ")
            cleanup == GetUmU \o <<" ", RegNETFramework, " && ">> \o
                       GetUmU \o <<" ", RegNETSetup, " && ">>
        IN  /\ umu.program = <<"/bin/sh">>
            /\ umu.args[1] = <<"-c">>
            /\ umu.args[2] = IF hasDotnet THEN cleanup \o call ELSE call

\* a prefix is being created with a dotnet component requested second
C14_CreationWithDotnetSecond ==
    /\ umu.state = "running" /\ umu.flow = "create"
    /\ dialog.verbs = <<<<"vcrun", "2019">>, <<"dotnet", "48">>>>
    /\ umu.args[2][4] = " && "

\* nothing of the window has been built: no prefix button, no tray icon, no
\* header, no dialog
PreUI ==
    /\ prefixMainButton = <<>> /\ trayIcon = "none" /\ backIcon = "none"
    /\ dialog = NoDialog /\ currentPrefix = NoPrefix

\* C15: when the launcher is not found at startup, or the path
\* initialisation fails, the process has ended with status 1 and nothing of
\* the window was built; after an exit no handler has run
C15_LauncherMissingIsFatal ==
    /\ (lastOp.op = "construct" /\ (lastOp.info[1] = 0 \/ lastOp.info[2] = 0)) =>
           manager = "exit1" /\ PreUI
    /\ manager = "exit1" => lastOp.op = "construct" /\ PreUI

\* the process has ended because the launcher was not found
C15_ExitedWithoutLauncher ==
    manager = "exit1" /\ lastOp.op = "construct" /\ lastOp.info[1] = 0

\* C16 as stated: with the launcher found, the paths initialised and no
\* runner available, the manager keeps running
C16_NoRunnersKeepsRunning ==
    (lastOp.op = "construct" /\ lastOp.info = <<1, 1, 0>>) => manager = "running"

\* C16: when the list of available runners is empty at startup, the process
\* has ended with status 1 and nothing of the window was built
C16_NoRunnersIsFatal ==
    (lastOp.op = "construct" /\ lastOp.info[3] = 0) => manager = "exit1" /\ PreUI

\* the process has ended because no runner is available
C16_ExitedWithoutRunners ==
    manager = "exit1" /\ lastOp.op = "construct" /\ lastOp.info = <<1, 1, 0>>

\* C17: a prefix selection that changes the current prefix leaves the
\* CurrentRunner of the selected prefix among the available runners: a
\* runner that is not available is replaced by the first available one and
\* the user is warned, an available one is kept without warning; the prefix
\* view is entered in both cases
C17_SelectionRepairsRunner ==
    [][ (lastOp'.op = "select" /\ lastOp'.info[1] = 1) =>
            /\ prefixRunner'[currentPrefix'] \in Range(AvailableProtons)
            /\ prefixIsSelected' /\ currentPrefix' # currentPrefix
            /\ IF prefixRunner[currentPrefix'] \in Range(AvailableProtons)
               THEN prefixRunner' = prefixRunner /\ lastOp'.info[2] = 0
               ELSE /\ prefixRunner'[currentPrefix'] = AvailableProtons[1]
                    /\ lastOp'.info[2] = 1
      ]_vars

\* a prefix whose runner was not available has been selected, with a warning
C17_SelectedWithWarning ==
    /\ lastOp.op = "select" /\ lastOp.info[1] = 1 /\ lastOp.info[2] = 1
    /\ currentPrefix = "Work" /\ prefixIsSelected

\* C18: a stop click never reaches a freed controller: the index in the
\* button's thread property is within the controller list and names the live
\* controller that was launched for the clicked row in the current prefix;
\* and the slot property of every live controller is its own index
C18_IndexNamesLiveController ==
    /\ lastOp.op # "crashPlayStop"
    /\ lastOp.op = "playStop" =>
           LET slot == lastOp.info[1]
               t == lastOp.info[2]
           IN  /\ t + 1 \in 1..Len(umuController)
               /\ umuController[t + 1].live
               /\ umuController[t + 1].slot = slot
               /\ umuController[t + 1].prefix = currentPrefix
    /\ \A j \in Live(umuController) : umuController[j].tslot = j - 1

\* C19: a handled exit resets the aggregate state exactly when it was the
\* exit of the last active run: then currentlyRunning and the controller
\* list are empty, threadsCount is 0, runnerPrefixIsDefault is false, the
\* tray is neutral, the back button is not the stop-all control and the
\* settings and components buttons are enabled, all in that step; while
\* another run is still active none of these is reset
C19_ResetExactlyAtZero ==
    [][ lastOp'.op = "result" =>
            IF Cardinality(Live(umuController)) - 1 = 0
            THEN /\ currentlyRunning' = <<>> /\ threadsCount' = 0 /\ umuController' = <<>>
                 /\ ~runnerPrefixIsDefault'
                 /\ trayToolTip' = TipNeutral /\ trayIcon' = "systrayPhi"
                 /\ backIcon' # "media-playback-stop"
                 /\ settingsEnabled' /\ tricksEnabled'
            ELSE /\ currentlyRunning' # <<>>
                 /\ threadsCount' = threadsCount
                 /\ Len(umuController') = Len(umuController)
                 /\ runnerPrefixIsDefault' = runnerPrefixIsDefault
                 /\ trayToolTip' # TipNeutral
                 /\ UNCHANGED <<trayIcon, backIcon, backEnabled, settingsEnabled, tricksEnabled>>
      ]_vars

\* the exit of the last of several launched runs has been handled
C19_LastExitHandled ==
    /\ lastOp.op = "result"
    /\ currentlyRunning = <<>> /\ umuController = <<>> /\ threadsCount = 0
    /\ prefixIsSelected /\ backIcon = "go-previous"
    /\ oneOffsRunning = <<>> /\ \E i \in 1..Len(rows) : rows[i].thread = 1

\* C20: every launched run whose subprocess has exited is eventually
\* removed: its result is handled and its controller is no longer in the
\* controller list
C20_ExitedRunRemoved ==
    \A j \in 1..MaxThreads :
        (j \in Live(umuController) /\ umuController[j].proc = "exited")
            ~> ~(j \in Live(umuController) /\ umuController[j].proc = "exited")

\* C21: the worker of a run calls StartShortcut when its slot is
\* non-negative and StartOnetime when its slot is -1; it has emitted no
\* result event while the call runs and one once the call has returned, and
\* that event carries the worker's own slot and the exit code the call
\* returned
C21_WorkerRunsOnceAndReports ==
    \A j \in Live(umuController) :
        LET c == umuController[j]
        IN  /\ c.call = (IF c.slot >= 0 THEN "StartShortcut" ELSE "StartOnetime")
            /\ c.proc = "running" => c.event = <<>> /\ c.returned = -1
            /\ c.proc = "exited" => c.returned \in ExitCodes /\ c.event = <<c.slot, c.returned>>

\* the worker of a one-time run has reported a failure
C21_OneTimeWorkerReported ==
    \E j \in Live(umuController) :
        /\ umuController[j].call = "StartOnetime"
        /\ umuController[j].event = <<-1, 1>>

\* C22: a launch (of a shortcut or one-time) made while another run is
\* active creates its controller with isGroupRun true, a launch made while
\* no run is active creates it with isGroupRun false
C22_GroupFlagAtLaunch ==
    [][ lastOp'.op = "start" =>
            /\ Len(umuController') = Len(umuController) + 1
            /\ umuController'[Len(umuController')].group = (Live(umuController) # {})
      ]_vars

\* a one-time run has been launched while another run was active
C22_SecondLaunchIsGroupRun ==
    /\ lastOp.op = "start" /\ Len(umuController) = 2
    /\ umuController[1].live /\ ~umuController[1].group
    /\ umuController[2].slot = -1 /\ umuController[2].group

\* C23: among the live controllers at most one has isGroupRun false, and it
\* has a lower thread index than every other live controller; the live
\* controller with the highest index, the one stop-all picks, has
\* isGroupRun false only when it is the only one
C23_OnlyTheFirstRunIsNotGroup ==
    /\ \A i, j \in Live(umuController) :
           (~umuController[i].group /\ i # j) => i < j
    /\ \A i \in Live(umuController) :
           ((\A j \in Live(umuController) : j <= i) /\ ~umuController[i].group)
               => Live(umuController) = {i}

\* stop-all has picked a group run while the first run was still active
C23_StopAllPickedGroupRun ==
    /\ lastOp.op = "stopAll" /\ Len(lastOp.info) = 1
    /\ Cardinality(Live(umuController)) = 2
    /\ umuController[lastOp.info[1] + 1].group
    /\ \E i \in Live(umuController) : ~umuController[i].group

C25_BackButton ==
    [][ lastOp'.op \in {"back", "stopAll", "crashBack"} =>
            IF Len(currentlyRunning) > 0
            THEN IF prefixIsSelected /\ runnerPrefixIsDefault
                 THEN /\ lastOp'.op = "back"
                      /\ ~prefixIsSelected'
                      /\ backEnabled' /\ backIcon' = "media-playback-stop"
                      /\ UNCHANGED <<currentPrefix, currentlyRunning, umuController>>
                 ELSE /\ lastOp'.op = "stopAll"
                      /\ \E j \in Live(umuController') : umuController'[j].killed
                      /\ UNCHANGED <<prefixIsSelected, currentPrefix, rows, backEnabled,
                                     backIcon, currentlyRunning>>
            ELSE /\ prefixIsSelected /\ lastOp'.op = "back"
                 /\ ~prefixIsSelected' /\ ~backEnabled'
                 /\ UNCHANGED <<currentPrefix, currentlyRunning, umuController>>
      ]_vars

\* with a run active the back click has led to the prefix list
C25_NavigatedWithRunActive ==
    /\ lastOp.op = "back" /\ Len(currentlyRunning) > 0
    /\ ~prefixIsSelected /\ backEnabled /\ backIcon = "media-playback-stop"

\* C26: while a run is active the prefix-settings and install-components
\* buttons are disabled
C26_ActionsDisabledWhileRunning ==
    Len(currentlyRunning) > 0 => ~settingsEnabled /\ ~tricksEnabled

\* C27: the install-components button is enabled only when winetricks is
\* available: after a prefix selection that found no winetricks the button
\* is disabled
C27_TricksEnabledOnlyWithWinetricks ==
    (lastOp.op = "select" /\ lastOp.info[3] = 0) => ~tricksEnabled

C29_ActsOnOwnEntry ==
    [][ lastOp'.op \in {"rename", "deleteShortcut"} =>
            LET own == rows[lastOp'.info[1] + 1].hash
            IN  /\ shortcuts'[currentPrefix][own] # shortcuts[currentPrefix][own]
                /\ \A h \in Hashes \ {own} :
                       shortcuts'[currentPrefix][h] = shortcuts[currentPrefix][h]
      ]_vars

\* the shell command of the running installation starts with the two
\* registry deletions
TricksCleanupIssued ==
    /\ Len(umu.args[2]) > Len(DotnetCleanup)
    /\ SubSeq(umu.args[2], 1, Len(DotnetCleanup)) = DotnetCleanup

\* the shell command of the running installation ends with the winetricks
\* call for the requested verbs, after nothing or after the two deletions
TricksInstallIssued ==
    LET call == GetUmU \o <<" ">> \o Join(<<Str("winetricks")>> \o dialog.verbs, " ")
    IN  /\ umu.program = <<"/bin/sh">> /\ umu.args[1] = <<"-c">>
        /\ umu.args[2] = IF TricksCleanupIssued THEN DotnetCleanup \o call ELSE call

\* C30: in the installation of components into an existing prefix the two
\* registry deletions are put before the winetricks call exactly when a
\* requested verb is a dotnet one that is not installed yet
C30_CleanupForNewDotnetVerb ==
    (umu.state = "running" /\ umu.flow = "tricks") =>
        /\ TricksInstallIssued
        /\ TricksCleanupIssued <=>
               \E i \in 1..Len(dialog.verbs) :
                   /\ Contains(dialog.verbs[i], "dotnet")
                   /\ dialog.verbs[i] \notin Range(dialog.installed)

\* C30, as the code has it: the two registry deletions are put before the
\* winetricks call exactly when a requested verb is a dotnet one and no
\* dotnet verb at all is installed in the prefix yet
C30_CleanupForFirstDotnetVerb ==
    (umu.state = "running" /\ umu.flow = "tricks") =>
        /\ TricksInstallIssued
        /\ TricksCleanupIssued <=>
               /\ \E i \in 1..Len(dialog.verbs) : Contains(dialog.verbs[i], "dotnet")
               /\ \A i \in 1..Len(dialog.installed) : ~Contains(dialog.installed[i], "dotnet")

\* a second dotnet verb is being installed into a prefix that has one
C30_SecondDotnetVerbRequested ==
    /\ umu.state = "running" /\ umu.flow = "tricks"
    /\ dialog.installed = <<<<"dotnet", "40">>>>
    /\ dialog.verbs = <<<<"dotnet", "48">>>>

\* C31: every output line with a marker is read and looked at before the
\* flow leaves the output loop: no such line is left unread when the creation
\* or the installation has finished
C31_NoMarkerLineLost ==
    /\ lastOp.op = "created" => lastOp.info[5] = 0
    /\ lastOp.op = "installed" => lastOp.info[3] = 0

\* C32: a flow that has left the output loop has delivered exactly one
\* notification, the success one if and only if the exit code is 0 and the
\* failure one otherwise, in the creation and in the installation flow; no
\* notification is delivered while the subprocess runs
C32_OneNotificationByExitCode ==
    /\ lastOp.op = "created" =>
           notifications = <<IF lastOp.info[1] = 0 THEN "created" ELSE "createError">>
    /\ lastOp.op = "installed" =>
           notifications = <<IF lastOp.info[1] = 0 THEN "tricksFinished" ELSE "tricksError">>
    /\ umu.state = "running" => notifications = <<>>

\* C32, as the code has it: the notification is delivered when the tray
\* supports messages, and then it is the one the exit code chooses; a tray
\* without messages gets none
C32_OneNotificationIfSupported ==
    /\ lastOp.op = "created" =>
           notifications = IF lastOp.info[4] = 0 THEN <<>>
                           ELSE <<IF lastOp.info[1] = 0 THEN "created" ELSE "createError">>
    /\ lastOp.op = "installed" =>
           notifications = IF lastOp.info[2] = 0 THEN <<>>
                           ELSE <<IF lastOp.info[1] = 0 THEN "tricksFinished"
                                  ELSE "tricksError">>
    /\ umu.state = "running" => notifications = <<>>

\* a creation has ended with a nonzero exit code and its failure message
C32_FailureNotified ==
    lastOp.op = "created" /\ lastOp.info[1] # 0 /\ notifications = <<"createError">>

RECURSIVE ReadLines(_)
\* the lines of a text
ReadLines(text) ==
    IF text = <<>> THEN <<>>
    ELSE <<SubSeq(text, 1, LineLength(text))>> \o
         ReadLines(SubSeq(text, LineLength(text) + 1, Len(text)))

\* a line of the Ports section header
IsPortsLine(line) == SubSeq(line, 1, 1) = <<PortsHeader>>

RECURSIVE WithComLines(_)
\* the lines, with the five serial-port lines after each Ports header line
WithComLines(ls) ==
    IF ls = <<>> THEN <<>>
    ELSE <<Head(ls)>> \o (IF IsPortsLine(Head(ls)) THEN ReadLines(ComPorts) ELSE <<>>)
                     \o WithComLines(Tail(ls))

\* C33: the lines of the rewritten system.reg are the original lines,
\* unchanged and in their order, with the five COM lines right after each
\* line that starts with the Ports header and nothing else added; a file
\* without such a line is written back as it was
C33_RewriteAddsOnlyComLines ==
    (lastOp.op = "created" /\ CreatedMarker) =>
        LET original == ReadLines(systemReg.read)
            rewritten == ReadLines(systemReg.written)
        IN  /\ rewritten = WithComLines(original)
            /\ Len(rewritten) =
                   Len(original) + 5 * Cardinality({i \in 1..Len(original) :
                                                       IsPortsLine(original[i])})
            /\ (\A i \in 1..Len(original) : ~IsPortsLine(original[i])) =>
                   systemReg.written = systemReg.read

\* a file with a Ports header line after another line has been rewritten
C33_RewrittenWithPorts ==
    /\ lastOp.op = "created" /\ CreatedMarker
    /\ Len(ReadLines(systemReg.read)) = 3
    /\ IsPortsLine(ReadLines(systemReg.read)[2])
    /\ ~IsPortsLine(ReadLines(systemReg.read)[1])
    /\ systemReg.written # systemReg.read

\* C34: the rewrite applied to a rewritten system.reg leaves it as it is
C34_RewriteIdempotent ==
    (lastOp.op = "created" /\ CreatedMarker) =>
        RewriteReg(systemReg.written) = systemReg.written

\* the labels of the rows shown are in case-insensitive order
RowsInOrder ==
    \A i, j \in 1..Len(rows) :
        (i < j /\ rows[i].live /\ rows[j].live) => Fold(rows[i].label) <= Fold(rows[j].label)

\* the rows shown are the shortcuts of the store, each name as often as the
\* store has it
RowsFromStore ==
    \A n \in Names :
        Cardinality({i \in 1..Len(rows) : rows[i].live /\ rows[i].label = n}) =
        Cardinality({h \in ChildKeys(currentPrefix) : shortcuts[currentPrefix][h] = n})

\* C35: the shortcut rows of the current prefix are in case-insensitive order
\* of display name after every render, add-shortcut and rename
C35_RowsAlwaysInOrder == prefixIsSelected => RowsInOrder

\* C35, as the code has it: the rows are in case-insensitive order of
\* display name, taken from the store, when the list has just been rendered
C35_RenderedRowsInOrder ==
    (lastOp.op = "select" /\ lastOp.info[1] = 1) => RowsInOrder /\ RowsFromStore

\* a list whose store order is not the display order has been rendered
C35_RenderedAgainstStoreOrder ==
    /\ lastOp.op = "select" /\ lastOp.info[1] = 1
    /\ Len(rows) = 2
    /\ Fold(GetCurrentPrefixShortcuts(currentPrefix)[1]) >
           Fold(GetCurrentPrefixShortcuts(currentPrefix)[2])

\* C36: at most one runner dialog exists, the one runnerWindow names; the
\* signals RunnerProtonStarted and RunnerProtonStopped remove it, the signals
\* RunnerStarting, RunnerUpdated and RunnerProtonStopping set its text and
\* leave it open, and a signal that finds no dialog changes nothing
C36_OneRunnerDialog ==
    /\ [](Len(runnerDialogs) <= 1 /\ (runnerWindow <=> Len(runnerDialogs) = 1))
    /\ [][ lastOp'.op = "signal" =>
               IF runnerDialogs = <<>>
               THEN runnerDialogs' = <<>> /\ ~runnerWindow'
               ELSE IF lastOp'.info[1] \in {3, 5}
               THEN runnerDialogs' = <<>> /\ ~runnerWindow'
               ELSE /\ runnerWindow' /\ Len(runnerDialogs') = 1
                    /\ runnerDialogs'[1] =
                           (CASE lastOp'.info[1] = 1 -> "umu launching..."
                              [] lastOp'.info[1] = 2 -> "umu runtime updated, starting Proton..."
                              [] lastOp'.info[1] = 4 -> "Stopping Proton process...")
         ]_vars

\* the dialog of a second launch shows the text RunnerUpdated has set
C36_DialogTextUpdated ==
    /\ lastOp.op = "signal" /\ lastOp.info = <<2>>
    /\ runnerDialogs = <<"umu runtime updated, starting Proton...">>
    /\ Len(currentlyRunning) = 2

\* C37: the DefaultPrefix setting is unset or names a prefix of the store,
\* after every creation that succeeded or failed, every deletion and every
\* accepted preferences dialog
C37_DefaultPrefixInStore ==
    defaultPrefix = NoPrefix \/ defaultPrefix \in Range(prefixes)

(* ------------------------------- C38 ---------------------------------- *)
\* the double quotes of text are balanced
Balanced(text) == Len(SelectSeq(text, LAMBDA c : c = Quote)) % 2 = 0

\* the tokens of a text with balanced quotes, read left to right: spaces
\* outside quotes separate, a quoted span gives its content, any other
\* character starts a maximal run free of spaces and quotes
RECURSIVE TokensOf(_)
TokensOf(s) ==
    IF s = <<>> THEN <<>>
    ELSE IF s[1] = Space THEN TokensOf(Tail(s))
    ELSE IF s[1] = Quote
         THEN LET rest == Tail(s)
                  close == CHOOSE k \in 1..Len(rest) :
                               /\ rest[k] = Quote
                               /\ \A m \in 1..(k - 1) : rest[m] # Quote
              IN  <<SubSeq(rest, 1, close - 1)>>
                      \o TokensOf(SubSeq(rest, close + 1, Len(rest)))
         ELSE LET stop == CHOOSE k \in 2..(Len(s) + 1) :
                              /\ k = Len(s) + 1 \/ s[k] \in {Space, Quote}
                              /\ \A m \in 2..(k - 1) : s[m] \notin {Space, Quote}
              IN  <<SubSeq(s, 1, stop - 1)>> \o TokensOf(SubSeq(s, stop, Len(s)))

\* the quoted spans of a text with balanced quotes that hold nothing
EmptySpans(text) ==
    {k \in 1..(Len(text) - 1) :
        /\ text[k] = Quote /\ text[k + 1] = Quote
        /\ Balanced(SubSeq(text, 1, k - 1))}

\* C38: for every non-empty text of the argument field whose double quotes
\* are balanced, the controller of the one-time run is given, in input order,
\* the maximal space-free unquoted tokens and the content of each quoted span;
\* spaces outside quotes give no empty argument, each empty quoted span gives
\* one empty argument, and no argument holds a double quote
C38_ArgsAreTokens ==
    \A j \in Live(umuController) :
        LET text == umuController[j].text
            args == umuController[j].args
        IN  (text # <<>> /\ Balanced(text)) =>
                /\ args = TokensOf(text)
                /\ \A n \in 1..Len(args) : ~Contains(args[n], Quote)
                /\ Cardinality({n \in 1..Len(args) : args[n] = <<>>})
                       = Cardinality(EmptySpans(text))

\* a one-time run whose text has repeated spaces and an empty quoted span
C38_EmptySpanSplit ==
    \E j \in Live(umuController) :
        /\ umuController[j].text = <<Space, Space, Quote, Quote>>
        /\ umuController[j].args = << <<>> >>

==============================================================================
